---- MODULE Spec2Model ----
(***************************************************************************)
(* A model of the docx editing library: XMLEditor (utilities.py), the      *)
(* attribute-injecting DocxXMLEditor and the Document comment session      *)
(* (document.py).                                                          *)
(*                                                                         *)
(* An element is a node [tag, attrs, kids]: tag is the qualified tagName,   *)
(* attrs maps attribute names to their parsed values, kids is the sequence *)
(* of child nodes; an element produced by the line-tracking parser also    *)
(* has line, the line of its parse_position.  A text node is               *)
(* [tag |-> "#text", data], data being its characters.                     *)
(* A node of a tree is addressed by its path: the sequence of child        *)
(* indexes leading from the root element to it (<<>> is the root).         *)
(***************************************************************************)
EXTENDS Integers, Sequences, FiniteSets, TLC

VARIABLES
    pc,                 \* "closed": no session; "open": a Document exists
    orig,               \* the package directory given to Document(): part -> tree
    dest,               \* a separate destination directory of save(destination)
    ws,                 \* unpacked_path: the stored files of the scratch workspace
    editors,            \* Document._editors: the cached DOM of each opened part
    original_docx,      \* the packed snapshot of the original taken by __init__
    existing_comments,  \* Document.existing_comments: comment id -> para_id
    next_comment_id,    \* Document.next_comment_id
    author,             \* Document.author of the open session
    last,               \* what the last operation did and returned
    issued,             \* the ids returned by the successful calls of the session
    nops,               \* comment operations performed so far (bounded)
    nsessions,          \* sessions constructed so far (bounded)
    dom,                \* the tree of a stand-alone XMLEditor (lookup model)
    found,              \* the outcome of the last get_node on dom
    val,                \* a run of the validator: what it was given and what it did
    returned,           \* the nodes the last mutation of a DocxXMLEditor returned
    xml_path            \* the file of a stand-alone XMLEditor and the encoding detected

vars == << pc, orig, dest, ws, editors, original_docx, existing_comments,
           next_comment_id, author, last, issued, nops, nsessions, dom, found,
           val, returned, xml_path >>

sessionVars == << pc, orig, dest, ws, editors, original_docx, existing_comments,
                  next_comment_id, author, last, issued, nops, nsessions >>

(***************************************************************************)
(* Bounds of the model.                                                    *)
(***************************************************************************)
MaxOps == 2
MaxSessions == 2
MaxEdits == 1
MaxInjections == 2

(***************************************************************************)
(* Nodes.                                                                  *)
(***************************************************************************)
NoAttrs == [a \in {} |-> ""]

Elem(tag, attrs, kids) == [tag |-> tag, attrs |-> attrs, kids |-> kids]

Text(chars) == [tag |-> "#text", data |-> chars]

\* node.childNodes
Kids(n) == IF n.tag = "#text" THEN <<>> ELSE n.kids

\* getattr(elem, "parse_position", (None,))[0], 0 standing for None
Line(n) == IF "line" \in DOMAIN n THEN n.line ELSE 0

\* A file that does not exist; an editor that was never opened.
Absent == Elem("#absent", NoAttrs, <<>>)

IsElement(n) == n.tag \notin {"#text", "#absent"}

Exists(file) == file.tag # "#absent"

\* The whitespace between the elements of the multi-line fragment literals.
NL == Text(<<"\n">>)

\* elem.getAttribute(name): "" when the attribute is not there.
getAttribute(n, name) == IF name \in DOMAIN n.attrs THEN n.attrs[name] ELSE ""

hasAttribute(n, name) == name \in DOMAIN n.attrs

\* elem.setAttribute(name, value)
setAttribute(n, name, value) ==
    [n EXCEPT !.attrs = [a \in (DOMAIN n.attrs) \cup {name} |->
                            IF a = name THEN value ELSE n.attrs[a]]]

Front(s) == SubSeq(s, 1, Len(s) - 1)
Last(s) == s[Len(s)]

RECURSIVE NodeAt(_, _)
NodeAt(root, path) ==
    IF path = <<>> THEN root ELSE NodeAt(Kids(root)[Head(path)], Tail(path))

\* The tree with the children of the node at path replaced.
RECURSIVE WithKids(_, _, _)
WithKids(root, path, kids) ==
    IF path = <<>>
    THEN [root EXCEPT !.kids = kids]
    ELSE [root EXCEPT !.kids[Head(path)] = WithKids(@, Tail(path), kids)]

\* The tree with the node at path replaced by node.
WithNode(root, path, node) ==
    IF path = <<>> THEN node
    ELSE WithKids(root, Front(path),
                  [NodeAt(root, Front(path)).kids EXCEPT ![Last(path)] = node])

\* The paths of all nodes below (and including) the node at prefix, in
\* document order.
RECURSIVE Preorder(_, _, _)
Preorder(forest, prefix, i) ==
    IF i > Len(forest) THEN <<>>
    ELSE << Append(prefix, i) >>
         \o Preorder(Kids(forest[i]), Append(prefix, i), 1)
         \o Preorder(forest, prefix, i + 1)

AllPaths(root) == << <<>> >> \o Preorder(Kids(root), <<>>, 1)

\* dom.getElementsByTagName(tag): the elements whose tagName is tag, the
\* document element included, in document order (as paths).
getElementsByTagName(root, tag) ==
    SelectSeq(AllPaths(root), LAMBDA p : NodeAt(root, p).tag = tag)

\* elem.getElementsByTagName(tag): the descendants of elem only.
descendantsByTagName(elem, tag) ==
    SelectSeq(Preorder(Kids(elem), <<>>, 1), LAMBDA p : NodeAt(elem, p).tag = tag)

Range(s) == { s[i] : i \in 1..Len(s) }

(***************************************************************************)
(* Conversions between numbers and the decimal numerals of attributes.     *)
(***************************************************************************)
Digits == << "0", "1", "2", "3", "4", "5", "6", "7", "8", "9" >>

\* str(n) of a non-negative int
RECURSIVE str(_)
str(n) == IF n < 10 THEN Digits[n + 1] ELSE str(n \div 10) \o Digits[(n % 10) + 1]

\* The numbers whose numerals occur in the model.
MaxNumeral == 40
Numerals == 0..MaxNumeral

\* int(s) succeeds (no ValueError)
IsInt(s) == \E n \in Numerals : str(n) = s

\* int(s)
int(s) == CHOOSE n \in Numerals : str(n) = s

Max(a, b) == IF a >= b THEN a ELSE b

(***************************************************************************)
(* XMLEditor (utilities.py)                                                *)
(***************************************************************************)

\* A text node that is whitespace only: node.data.strip() is empty.
IsBlank(chars) == \A i \in 1..Len(chars) : chars[i] \in {" ", "\n", "\t"}

\* XMLEditor._get_element_text: the data of the non-blank text nodes below
\* elem, concatenated in document order.
RECURSIVE get_element_text(_)
RECURSIVE ForestText(_, _)
ForestText(forest, i) ==
    IF i > Len(forest) THEN <<>>
    ELSE (IF forest[i].tag = "#text"
          THEN (IF IsBlank(forest[i].data) THEN <<>> ELSE forest[i].data)
          ELSE get_element_text(forest[i]))
         \o ForestText(forest, i + 1)
get_element_text(elem) == ForestText(Kids(elem), 1)

\* html.unescape on the characters of the search string: a numeric character
\* reference becomes the character it names ("&#8220;" is U+201C, written Q).
CharRefs == [c \in {"&#8220;"} |-> "Q"]
unescape(chars) ==
    [i \in 1..Len(chars) |->
        IF chars[i] \in DOMAIN CharRefs THEN CharRefs[chars[i]] ELSE chars[i]]

\* a in b, for strings
Contains(b, a) ==
    \E i \in 0..(Len(b) - Len(a)) : SubSeq(b, i + 1, i + Len(a)) = a

\* The filters of get_node: f.attrs is the attrs dict (empty: None),
\* f.hasLine says whether line_number was given and f.lines holds the line
\* (an int) or the lines of the range, f.contains is the text (empty: None).
Filter(tag, attrs, hasLine, lines, contains) ==
    [tag |-> tag, attrs |-> attrs, hasLine |-> hasLine, lines |-> lines,
     contains |-> contains]

ByAttrs(tag, attrs) == Filter(tag, attrs, FALSE, {}, <<>>)

\* The mutant: an element without a position passes the line filter when
\* the lines asked for include the number that stands for no position.
PassesFilters_NoPositionIsALine(elem, f) ==
    /\ f.hasLine => Line(elem) \in f.lines
    /\ \A a \in DOMAIN f.attrs : getAttribute(elem, a) = f.attrs[a]
    /\ f.contains # <<>> => Contains(get_element_text(elem), unescape(f.contains))

\* One pass of the loop body of get_node: does elem pass every filter given?
PassesFilters(elem, f) ==
    /\ f.hasLine => (Line(elem) # 0 /\ Line(elem) \in f.lines)
    /\ \A a \in DOMAIN f.attrs : getAttribute(elem, a) = f.attrs[a]
    /\ f.contains # <<>> => Contains(get_element_text(elem), unescape(f.contains))

\* The list `matches` of get_node.
Matches(root, f) ==
    SelectSeq(getElementsByTagName(root, f.tag),
              LAMBDA p : PassesFilters(NodeAt(root, p), f))

\* The mutant: the first match is returned when several elements match.
get_node_FirstMatch(root, f) ==
    LET m == Matches(root, f) IN
    IF m = <<>> THEN [status |-> "NotFound", path |-> <<>>]
    ELSE [status |-> "ok", path |-> m[1]]

\* The mutant: the attrs filter is not applied.
get_node_NoAttrs(root, f) ==
    LET m == Matches(root, [f EXCEPT !.attrs = NoAttrs]) IN
    IF m = <<>> THEN [status |-> "NotFound", path |-> <<>>]
    ELSE IF Len(m) > 1 THEN [status |-> "Ambiguous", path |-> <<>>]
    ELSE [status |-> "ok", path |-> m[1]]

\* XMLEditor.get_node: the one match, or the ValueError it raises.
get_node(root, f) ==
    LET m == Matches(root, f) IN
    IF m = <<>> THEN [status |-> "NotFound", path |-> <<>>]
    ELSE IF Len(m) > 1 THEN [status |-> "Ambiguous", path |-> <<>>]
    ELSE [status |-> "ok", path |-> m[1]]

\* _parse_fragment without its assertion
parse_fragment_Unchecked(nodes) == [ok |-> TRUE, nodes |-> nodes]

\* XMLEditor._parse_fragment: the nodes of the fragment, imported; the
\* assertion fails when none of them is an element.
parse_fragment(nodes) ==
    [ok |-> \E i \in 1..Len(nodes) : IsElement(nodes[i]), nodes |-> nodes]

\* parent.insertBefore(node, ref) for each node in turn, ref being the child
\* at index refIdx when the loop starts.
RECURSIVE InsertEachBefore(_, _, _)
InsertEachBefore(kids, nodes, refIdx) ==
    IF nodes = <<>> THEN kids
    ELSE InsertEachBefore(
            SubSeq(kids, 1, refIdx - 1) \o << Head(nodes) >>
                \o SubSeq(kids, refIdx, Len(kids)),
            Tail(nodes), refIdx + 1)

\* elem.appendChild(node) for each node in turn
RECURSIVE AppendEach(_, _)
AppendEach(kids, nodes) ==
    IF nodes = <<>> THEN kids ELSE AppendEach(Append(kids, Head(nodes)), Tail(nodes))

\* The outcome of a mutation: the tree after it, the paths of the inserted
\* nodes, or ok = FALSE when the fragment holds no element (tree unchanged).
Mutated(tree, paths) == [ok |-> TRUE, tree |-> tree, paths |-> paths]
Failed(tree) == [ok |-> FALSE, tree |-> tree, paths |-> <<>>]

SiblingPaths(parent, first, n) == [i \in 1..n |-> Append(parent, first + i - 1)]

\* XMLEditor.insert_before(elem, xml_content)
xml_insert_before(root, path, nodes) ==
    LET parent == Front(path)
        kids == NodeAt(root, parent).kids
        frag == parse_fragment(nodes)
    IN  IF ~frag.ok THEN Failed(root)
        ELSE Mutated(WithKids(root, parent,
                              InsertEachBefore(kids, frag.nodes, Last(path))),
                     SiblingPaths(parent, Last(path), Len(nodes)))

\* The mutant: each node is inserted directly after elem, so the last node
\* of the fragment comes first.
xml_insert_after_EachAfterTarget(root, path, nodes) ==
    LET parent == Front(path)
        kids == NodeAt(root, parent).kids
        frag == parse_fragment(nodes)
        reversed == [i \in 1..Len(nodes) |-> frag.nodes[Len(nodes) + 1 - i]]
    IN  IF ~frag.ok THEN Failed(root)
        ELSE Mutated(WithKids(root, parent,
                              SubSeq(kids, 1, Last(path)) \o reversed
                                  \o SubSeq(kids, Last(path) + 1, Len(kids))),
                     SiblingPaths(parent, Last(path) + 1, Len(nodes)))

\* XMLEditor.insert_after(elem, xml_content)
xml_insert_after(root, path, nodes) ==
    LET parent == Front(path)
        kids == NodeAt(root, parent).kids
        hasNext == Last(path) < Len(kids)
        frag == parse_fragment(nodes)
    IN  IF ~frag.ok THEN Failed(root)
        ELSE Mutated(WithKids(root, parent,
                              IF hasNext
                              THEN InsertEachBefore(kids, frag.nodes, Last(path) + 1)
                              ELSE AppendEach(kids, frag.nodes)),
                     SiblingPaths(parent, Last(path) + 1, Len(nodes)))

\* XMLEditor.append_to(elem, xml_content)
xml_append_to(root, path, nodes) ==
    LET kids == NodeAt(root, path).kids
        frag == parse_fragment(nodes)
    IN  IF ~frag.ok THEN Failed(root)
        ELSE Mutated(WithKids(root, path, AppendEach(kids, frag.nodes)),
                     SiblingPaths(path, Len(kids) + 1, Len(nodes)))

\* XMLEditor.replace_node(elem, new_content)
xml_replace_node(root, path, nodes) ==
    LET parent == Front(path)
        kids == NodeAt(root, parent).kids
        frag == parse_fragment(nodes)
        put == InsertEachBefore(kids, frag.nodes, Last(path))
        at == Last(path) + Len(nodes)
    IN  IF ~frag.ok THEN Failed(root)
        ELSE Mutated(WithKids(root, parent,
                              SubSeq(put, 1, at - 1) \o SubSeq(put, at + 1, Len(put))),
                     SiblingPaths(parent, Last(path), Len(nodes)))

\* "rId<n>"
rid(n) == "rId" \o str(n)

\* rel_id.startswith("rId") and int(rel_id[3:]) succeeds
IsRid(s) == \E n \in Numerals : rid(n) = s
RidNumber(s) == CHOOSE n \in Numerals : rid(n) = s

RECURSIVE MaxRid(_, _, _)
MaxRid(root, paths, acc) ==
    IF paths = <<>> THEN acc
    ELSE LET id == getAttribute(NodeAt(root, Head(paths)), "Id") IN
         MaxRid(root, Tail(paths), IF IsRid(id) THEN Max(acc, RidNumber(id)) ELSE acc)

\* XMLEditor.get_next_rid, as the number n of "rId<n>"
get_next_rid(root) == MaxRid(root, getElementsByTagName(root, "Relationship"), 0) + 1

(***************************************************************************)
(* The package: its parts, and the session's configuration.                *)
(***************************************************************************)
DOC == "word/document.xml"
COMMENTS == "word/comments.xml"
EXTENDED == "word/commentsExtended.xml"
IDS == "word/commentsIds.xml"
EXTENSIBLE == "word/commentsExtensible.xml"
PEOPLE == "word/people.xml"
RELS == "word/_rels/document.xml.rels"
CTYPES == "[Content_Types].xml"
SETTINGS == "word/settings.xml"

SideParts == { COMMENTS, EXTENDED, IDS, EXTENSIBLE }
Parts == SideParts \cup { DOC, PEOPLE, RELS, CTYPES, SETTINGS }

\* The root element each part is expected to have.
RootTag ==
    [p \in Parts |->
        CASE p = DOC -> "w:document"
          [] p = COMMENTS -> "w:comments"
          [] p = EXTENDED -> "w15:commentsEx"
          [] p = IDS -> "w16cid:commentsIds"
          [] p = EXTENSIBLE -> "w16cex:commentsExtensible"
          [] p = PEOPLE -> "w15:people"
          [] p = RELS -> "Relationships"
          [] p = CTYPES -> "Types"
          [] p = SETTINGS -> "w:settings"]

\* The starter file of TEMPLATE_DIR for a part: its root element, empty.
Template(part) == Elem(RootTag[part], NoAttrs, <<>>)

\* The token of the session (rsid), the initials and the clock's reading.
SessionRsid == "00AB12CD"
Initials == "C"
Now == "2026-01-01T00:00:00Z"

\* _generate_hex_id draws from 1..0x7FFFFFFE; the tokens the model draws.
HexIds == { "0000000A", "0000000B" }

\* The two tokens one call of add_comment or reply_to_comment draws (para_id,
\* durable_id).
HexDraws == { h \in HexIds \X HexIds : h[1] # h[2] }

\* What _generate_hex_id returns to the injector for a paragraph that was
\* inserted without identity tokens.
SpareHex == "0000000F"

\* A token no call of _generate_hex_id returns in the model: the one of a
\* comment that the package held when it was loaded.
LoadedPara == "0000000C"

(***************************************************************************)
(* Escaping a string into markup, and the parser's reading of it.          *)
(***************************************************************************)
\* text.replace("&", "&amp;").replace("<", "&lt;").replace(">", "&gt;")
escape_text(chars) ==
    [i \in 1..Len(chars) |->
        CASE chars[i] = "&" -> "&amp;"
          [] chars[i] = "<" -> "&lt;"
          [] chars[i] = ">" -> "&gt;"
          [] OTHER -> chars[i]]

\* html.escape(s, quote=True)
html_escape(chars) ==
    [i \in 1..Len(chars) |->
        CASE chars[i] = "&" -> "&amp;"
          [] chars[i] = "<" -> "&lt;"
          [] chars[i] = ">" -> "&gt;"
          [] chars[i] = "\"" -> "&quot;"
          [] chars[i] = "'" -> "&#x27;"
          [] OTHER -> chars[i]]

\* The XML parser's value of character data or of an attribute value: the
\* references are replaced by the characters they stand for.
xml_value(chars) ==
    [i \in 1..Len(chars) |->
        CASE chars[i] = "&amp;" -> "&"
          [] chars[i] = "&lt;" -> "<"
          [] chars[i] = "&gt;" -> ">"
          [] chars[i] = "&quot;" -> "\""
          [] chars[i] = "&#x27;" -> "'"
          [] OTHER -> chars[i]]

(***************************************************************************)
(* DocxXMLEditor (document.py): the attribute injector.                    *)
(***************************************************************************)
\* The mutant: the attribute is set whether the element has it or not.
setDefault_Overwrite(n, name, value) == setAttribute(n, name, value)

\* if not elem.hasAttribute(name): elem.setAttribute(name, value)
setDefault(n, name, value) ==
    IF hasAttribute(n, name) THEN n ELSE setAttribute(n, name, value)

\* add_rsid_to_p; hex is what _generate_hex_id returns
add_rsid_to_p(n, hex) ==
    setDefault(setDefault(setDefault(setDefault(setDefault(n,
        "w:rsidR", SessionRsid), "w:rsidRDefault", SessionRsid),
        "w:rsidP", SessionRsid), "w14:paraId", hex), "w14:textId", hex)

add_rsid_to_r(n) == setDefault(n, "w:rsidR", SessionRsid)

add_comment_attrs(n, who) ==
    setDefault(setDefault(setDefault(n, "w:author", who), "w:date", Now),
               "w:initials", Initials)

IsSpace(c) == c \in {" ", "\n", "\t"}

add_xml_space_to_t(n) ==
    IF /\ n.kids # <<>>
       /\ n.kids[1].tag = "#text"
       /\ n.kids[1].data # <<>>
       /\ (IsSpace(n.kids[1].data[1]) \/ IsSpace(Last(n.kids[1].data)))
    THEN setDefault(n, "xml:space", "preserve")
    ELSE n

\* The mutant: only the inserted node itself is treated, not the elements
\* below it.
InjectNode_TopOnly(n, who, hex) ==
    CASE n.tag = "w:p" -> add_rsid_to_p(n, hex)
      [] n.tag = "w:r" -> add_rsid_to_r(n)
      [] n.tag = "w:t" -> add_xml_space_to_t(n)
      [] n.tag = "w:comment" -> add_comment_attrs(n, who)
      [] OTHER -> n

\* The injection into one inserted node and into every element below it.
RECURSIVE InjectNode(_, _, _)
InjectNode(n, who, hex) ==
    IF n.tag = "#text" THEN n ELSE
    LET m == [n EXCEPT !.kids = [i \in 1..Len(n.kids) |-> InjectNode(n.kids[i], who, hex)]]
    IN  CASE n.tag = "w:p" -> add_rsid_to_p(m, hex)
          [] n.tag = "w:r" -> add_rsid_to_r(m)
          [] n.tag = "w:t" -> add_xml_space_to_t(m)
          [] n.tag = "w:comment" -> add_comment_attrs(m, who)
          [] OTHER -> m

\* Does the injection generate a paraId or textId somewhere in n?
RECURSIVE LacksParaId(_)
LacksParaId(n) ==
    \/ n.tag = "w:p" /\ ~(hasAttribute(n, "w14:paraId") /\ hasAttribute(n, "w14:textId"))
    \/ \E i \in 1..Len(Kids(n)) : LacksParaId(Kids(n)[i])

W14 == "http://schemas.microsoft.com/office/word/2010/wordml"

\* The mutant: the declaration is written whether the root has one or not.
ensure_w14_namespace_Overwrite(root) ==
    [root EXCEPT !.attrs = [a \in DOMAIN root.attrs \cup {"xmlns:w14"} |->
                               IF a = "xmlns:w14" THEN W14 ELSE root.attrs[a]]]

\* DocxXMLEditor._ensure_w14_namespace
ensure_w14_namespace(root) == setDefault(root, "xmlns:w14", W14)

\* DocxXMLEditor._inject_attributes_to_nodes on the nodes at paths
RECURSIVE inject_attributes_to_nodes(_, _, _, _)
inject_attributes_to_nodes(root, paths, who, hex) ==
    IF paths = <<>> THEN root
    ELSE LET n == NodeAt(root, Head(paths))
             stamped == WithNode(root, Head(paths), InjectNode(n, who, hex))
         IN  inject_attributes_to_nodes(
                IF IsElement(n) /\ LacksParaId(n) THEN ensure_w14_namespace(stamped)
                ELSE stamped,
                Tail(paths), who, hex)

\* The four mutations of DocxXMLEditor: the mutation of XMLEditor, then the
\* injection into the nodes it returned.
Stamp(r, who, hex) ==
    IF r.ok THEN [r EXCEPT !.tree = inject_attributes_to_nodes(r.tree, r.paths, who, hex)]
    ELSE r

insert_before(root, path, nodes, who, hex) ==
    Stamp(xml_insert_before(root, path, nodes), who, hex)
insert_after(root, path, nodes, who, hex) ==
    Stamp(xml_insert_after(root, path, nodes), who, hex)
append_to(root, path, nodes, who, hex) ==
    Stamp(xml_append_to(root, path, nodes), who, hex)
replace_node(root, path, nodes, who, hex) ==
    Stamp(xml_replace_node(root, path, nodes), who, hex)

(***************************************************************************)
(* The markup literals of document.py are modelled by the elements they    *)
(* parse to; the whitespace inside an element of a literal and the run     *)
(* properties (w:rPr) are left out, the whitespace between the top-level   *)
(* elements of a literal is kept.                                          *)
(*                                                                         *)
(* Document (document.py).  A method is a sequence of steps over the       *)
(* session's state S = [ws, ed, idx, next, who, err]: the workspace files, *)
(* the cached editors, existing_comments, next_comment_id, the author and  *)
(* the exception raised so far ("ok": none).  A step of a method that has  *)
(* raised does nothing: the exception propagates to the caller and what    *)
(* the earlier steps did stays done.                                       *)
(***************************************************************************)
Raise(S, e) == [S EXCEPT !.err = e]

\* Document.__getitem__: the cached editor of the part, parsed on first use.
open(S, part) ==
    IF S.err # "ok" \/ Exists(S.ed[part]) THEN S
    ELSE IF ~Exists(S.ws[part]) THEN Raise(S, "FileNotFound")
    ELSE [S EXCEPT !.ed[part] = S.ws[part]]

\* if not path.exists(): shutil.copy(TEMPLATE_DIR / name, path)
copy_template(S, part) ==
    IF S.err # "ok" \/ Exists(S.ws[part]) THEN S
    ELSE [S EXCEPT !.ws[part] = Template(part)]

\* The mutant: the mutation is written to the stored file as well.
Apply_WriteThrough(S, part, r) ==
    IF S.err # "ok" THEN S
    ELSE IF ~r.ok THEN Raise(S, "FragmentEmpty")
    ELSE [S EXCEPT !.ed[part] = r.tree, !.ws[part] = r.tree]

\* A mutation of the part's editor, given the operator that performs it.
Apply(S, part, r) ==
    IF S.err # "ok" THEN S
    ELSE IF ~r.ok THEN Raise(S, "FragmentEmpty")
    ELSE [S EXCEPT !.ed[part] = r.tree]

\* root = editor.get_node(tag=RootTag); editor.append_to(root, nodes)
append_to_root(S, part, nodes) ==
    IF S.err # "ok" THEN S
    ELSE LET root == get_node(S.ed[part], ByAttrs(RootTag[part], NoAttrs)) IN
         IF root.status # "ok" THEN Raise(S, root.status)
         ELSE Apply(S, part, append_to(S.ed[part], root.path, nodes, S.who, SpareHex))

A1(name, value) == [a \in {name} |-> value]

\* Document._comment_ref_run_xml
comment_ref_run_xml(id) ==
    << Elem("w:r", NoAttrs,
            << Elem("w:commentReference", A1("w:id", str(id)), <<>>) >>) >>

\* Document._comment_range_start_xml
comment_range_start_xml(id) ==
    << Elem("w:commentRangeStart", A1("w:id", str(id)), <<>>) >>

\* The mutant: the reference run is written before the end anchor.
comment_range_end_xml_RefFirst(id) ==
    comment_ref_run_xml(id)
        \o << NL, Elem("w:commentRangeEnd", A1("w:id", str(id)), <<>>) >>

\* Document._comment_range_end_xml
comment_range_end_xml(id) ==
    << Elem("w:commentRangeEnd", A1("w:id", str(id)), <<>>), NL >>
        \o comment_ref_run_xml(id)

\* The comment_xml of _add_to_comments_xml
comment_xml(id, para_id, text) ==
    << Elem("w:comment", A1("w:id", str(id)),
         << Elem("w:p", [a \in {"w14:paraId", "w14:textId"} |->
                            IF a = "w14:paraId" THEN para_id ELSE "77777777"],
                 << Elem("w:r", NoAttrs, << Elem("w:annotationRef", NoAttrs, <<>>) >>),
                    Elem("w:r", NoAttrs,
                         << Elem("w:t", NoAttrs,
                                 << Text(xml_value(escape_text(text))) >>) >>) >>) >>) >>

\* Document._add_to_comments_xml
add_to_comments_xml(S, id, para_id, text) ==
    append_to_root(open(copy_template(S, COMMENTS), COMMENTS), COMMENTS,
                   comment_xml(id, para_id, text))

\* The mutant: the thread record of a reply names the reply itself as parent.
commentEx_xml_SelfParent(para_id, parent_para_id) ==
    << Elem("w15:commentEx",
            [a \in {"w15:paraId", "w15:paraIdParent", "w15:done"} |->
                CASE a = "w15:paraId" -> para_id
                  [] a = "w15:paraIdParent" -> para_id
                  [] OTHER -> "0"], <<>>) >>

\* The xml of _add_to_comments_extended_xml; parent_para_id is "" for None
commentEx_xml(para_id, parent_para_id) ==
    IF parent_para_id # ""
    THEN << Elem("w15:commentEx",
                 [a \in {"w15:paraId", "w15:paraIdParent", "w15:done"} |->
                     CASE a = "w15:paraId" -> para_id
                       [] a = "w15:paraIdParent" -> parent_para_id
                       [] OTHER -> "0"], <<>>) >>
    ELSE << Elem("w15:commentEx",
                 [a \in {"w15:paraId", "w15:done"} |->
                     IF a = "w15:paraId" THEN para_id ELSE "0"], <<>>) >>

\* Document._add_to_comments_extended_xml
add_to_comments_extended_xml(S, para_id, parent_para_id) ==
    append_to_root(open(copy_template(S, EXTENDED), EXTENDED), EXTENDED,
                   commentEx_xml(para_id, parent_para_id))

\* The mutant: the durable-ID record pairs the tokens the other way round.
commentId_xml_Swapped(para_id, durable_id) ==
    << Elem("w16cid:commentId",
            [a \in {"w16cid:paraId", "w16cid:durableId"} |->
                IF a = "w16cid:paraId" THEN durable_id ELSE para_id], <<>>) >>

\* The xml of _add_to_comments_ids_xml
commentId_xml(para_id, durable_id) ==
    << Elem("w16cid:commentId",
            [a \in {"w16cid:paraId", "w16cid:durableId"} |->
                IF a = "w16cid:paraId" THEN para_id ELSE durable_id], <<>>) >>

\* Document._add_to_comments_ids_xml
add_to_comments_ids_xml(S, para_id, durable_id) ==
    append_to_root(open(copy_template(S, IDS), IDS), IDS,
                   commentId_xml(para_id, durable_id))

\* Document._add_to_comments_extensible_xml
add_to_comments_extensible_xml(S, durable_id) ==
    append_to_root(open(copy_template(S, EXTENSIBLE), EXTENSIBLE), EXTENSIBLE,
        << Elem("w16cex:commentExtensible", A1("w16cex:durableId", durable_id), <<>>) >>)

\* The mutant: the thread-metadata record is not written.
add_side_records_NoThread(S, id, para_id, durable_id, parent_para_id, text) ==
    add_to_comments_extensible_xml(
        add_to_comments_ids_xml(add_to_comments_xml(S, id, para_id, text),
                                para_id, durable_id),
        durable_id)

\* The four per-comment records of add_comment and reply_to_comment, in the
\* order the code appends them.
add_side_records(S, id, para_id, durable_id, parent_para_id, text) ==
    add_to_comments_extensible_xml(
        add_to_comments_ids_xml(
            add_to_comments_extended_xml(
                add_to_comments_xml(S, id, para_id, text),
                para_id, parent_para_id),
            para_id, durable_id),
        durable_id)

\* The mutant: the counter is not advanced.
record_comment_NoIncrement(S, id, para_id) ==
    IF S.err # "ok" THEN S
    ELSE [S EXCEPT !.idx = [c \in (DOMAIN S.idx) \cup {id} |->
                               IF c = id THEN para_id ELSE S.idx[c]]]

\* The mutant: the index records the token of a loaded comment.
record_comment_LoadedToken(S, id, para_id) ==
    IF S.err # "ok" THEN S
    ELSE [S EXCEPT !.idx = [c \in (DOMAIN S.idx) \cup {id} |->
                               IF c = id THEN LoadedPara ELSE S.idx[c]],
                   !.next = S.next + 1]

\* self.existing_comments[comment_id] = {"para_id": para_id};
\* self.next_comment_id += 1
record_comment(S, id, para_id) ==
    IF S.err # "ok" THEN S
    ELSE [S EXCEPT !.idx = [c \in (DOMAIN S.idx) \cup {id} |->
                               IF c = id THEN para_id ELSE S.idx[c]],
                   !.next = S.next + 1]

\* The path of a node after k nodes were inserted among the children of
\* parent from index at on: the node itself does not move, its index does.
Shifted(path, parent, at, k) ==
    IF /\ Len(path) > Len(parent)
       /\ SubSeq(path, 1, Len(parent)) = parent
       /\ path[Len(parent) + 1] >= at
    THEN [path EXCEPT ![Len(parent) + 1] = @ + k]
    ELSE path

\* Document.add_comment(start, end, text); para_id and durable_id are what
\* the two calls of _generate_hex_id return
add_comment(S, start, end, text, para_id, durable_id) ==
    LET id == S.next
        doc == S.ed[DOC]
        S1 == Apply(S, DOC, insert_before(doc, start, comment_range_start_xml(id),
                                          S.who, SpareHex))
        end1 == Shifted(end, Front(start), Last(start), 1)
        doc1 == S1.ed[DOC]
        S2 == IF NodeAt(doc1, end1).tag = "w:p"
              THEN Apply(S1, DOC, append_to(doc1, end1, comment_range_end_xml(id),
                                            S.who, SpareHex))
              ELSE Apply(S1, DOC, insert_after(doc1, end1, comment_range_end_xml(id),
                                               S.who, SpareHex))
    IN  record_comment(add_side_records(S2, id, para_id, durable_id, "", text),
                       id, para_id)

\* The mutant: the id is allocated (the counter advanced) before the parent
\* is looked up in the index.
check_parent_AllocFirst(S, parent) ==
    IF parent \in DOMAIN S.idx THEN S
    ELSE Raise([S EXCEPT !.next = S.next + 1], "ParentNotFound")

\* if parent_comment_id not in self.existing_comments: raise ValueError
check_parent(S, parent) ==
    IF parent \in DOMAIN S.idx THEN S ELSE Raise(S, "ParentNotFound")

\* The mutant: a parent without its anchors gets a reply without anchors.
reply_anchors_Lenient(S, id, parent) ==
    LET doc == S.ed[DOC]
        parent_start_elem ==
            get_node(doc, ByAttrs("w:commentRangeStart", A1("w:id", str(parent))))
        parent_ref_elem ==
            get_node(doc, ByAttrs("w:commentReference", A1("w:id", str(parent))))
    IN  IF S.err # "ok" \/ parent_start_elem.status # "ok" \/ parent_ref_elem.status # "ok"
        THEN S
        ELSE Apply(S, DOC, insert_after(doc, parent_start_elem.path,
                                        comment_range_start_xml(id), S.who, SpareHex))

\* The mutant: the start anchor is inserted as soon as the start anchor of
\* the parent is found, before the reference of the parent is looked up.
reply_anchors_SpliceBetweenLookups(S, id, parent) ==
    LET doc == S.ed[DOC]
        parent_start_elem ==
            get_node(doc, ByAttrs("w:commentRangeStart", A1("w:id", str(parent))))
        parent_ref_elem ==
            get_node(doc, ByAttrs("w:commentReference", A1("w:id", str(parent))))
    IN  IF S.err # "ok" THEN S
        ELSE IF parent_start_elem.status # "ok" THEN Raise(S, parent_start_elem.status)
        ELSE
        LET S1 == Apply(S, DOC, insert_after(doc, parent_start_elem.path,
                                             comment_range_start_xml(id), S.who, SpareHex))
        IN  IF parent_ref_elem.status # "ok" THEN Raise(S1, parent_ref_elem.status)
            ELSE
            LET parent_ref_run ==
                    Shifted(Front(parent_ref_elem.path), Front(parent_start_elem.path),
                            Last(parent_start_elem.path) + 1, 1)
                S2 == Apply(S1, DOC,
                            insert_after(S1.ed[DOC], parent_ref_run,
                                         << Elem("w:commentRangeEnd",
                                                 A1("w:id", str(id)), <<>>) >>,
                                         S.who, SpareHex))
            IN  Apply(S2, DOC,
                      insert_after(S2.ed[DOC], parent_ref_run,
                                   comment_ref_run_xml(id), S.who, SpareHex))

\* The splices of reply_to_comment into document.xml, after both lookups.
reply_anchors(S, id, parent) ==
    LET doc == S.ed[DOC]
        parent_start_elem ==
            get_node(doc, ByAttrs("w:commentRangeStart", A1("w:id", str(parent))))
        parent_ref_elem ==
            get_node(doc, ByAttrs("w:commentReference", A1("w:id", str(parent))))
    IN  IF S.err # "ok" THEN S
        ELSE IF parent_start_elem.status # "ok" THEN Raise(S, parent_start_elem.status)
        ELSE IF parent_ref_elem.status # "ok" THEN Raise(S, parent_ref_elem.status)
        ELSE
        LET S1 == Apply(S, DOC, insert_after(doc, parent_start_elem.path,
                                             comment_range_start_xml(id), S.who, SpareHex))
            parent_ref_run ==
                Shifted(Front(parent_ref_elem.path), Front(parent_start_elem.path),
                        Last(parent_start_elem.path) + 1, 1)
            S2 == Apply(S1, DOC,
                        insert_after(S1.ed[DOC], parent_ref_run,
                                     << Elem("w:commentRangeEnd", A1("w:id", str(id)), <<>>) >>,
                                     S.who, SpareHex))
        IN  Apply(S2, DOC, insert_after(S2.ed[DOC], parent_ref_run,
                                        comment_ref_run_xml(id), S.who, SpareHex))

\* Document.reply_to_comment(parent_comment_id, text)
reply_to_comment(S, parent, text, para_id, durable_id) ==
    LET id == S.next
        S0 == check_parent(S, parent)
        parent_para == IF parent \in DOMAIN S.idx THEN S.idx[parent] ELSE ""
    IN  record_comment(
            add_side_records(reply_anchors(S0, id, parent), id, para_id, durable_id,
                             parent_para, text),
            id, para_id)

(***************************************************************************)
(* Document.__init__ and the infrastructure it registers.                  *)
(***************************************************************************)
\* The para_id _load_existing_comments finds for a comment element: the first
\* non-empty w14:paraId of a w:p below it ("" when there is none).
RECURSIVE FirstParaId(_, _)
FirstParaId(comment_elem, ps) ==
    IF ps = <<>> THEN ""
    ELSE LET v == getAttribute(NodeAt(comment_elem, Head(ps)), "w14:paraId") IN
         IF v # "" THEN v ELSE FirstParaId(comment_elem, Tail(ps))

\* The loop of _load_existing_comments over the w:comment elements; the
\* result is [err, idx], err being the ValueError of int(comment_id).
RECURSIVE LoadComments(_, _, _)
LoadComments(root, cs, acc) ==
    IF cs = <<>> THEN [err |-> "ok", idx |-> acc]
    ELSE LET elem == NodeAt(root, Head(cs))
             comment_id == getAttribute(elem, "w:id")
             para_id == FirstParaId(elem, descendantsByTagName(elem, "w:p"))
         IN  IF comment_id = "" \/ para_id = "" THEN LoadComments(root, Tail(cs), acc)
             ELSE IF ~IsInt(comment_id) THEN [err |-> "ValueError", idx |-> acc]
             ELSE LoadComments(root, Tail(cs),
                      [c \in (DOMAIN acc) \cup {int(comment_id)} |->
                          IF c = int(comment_id) THEN para_id ELSE acc[c]])

NoComments == [c \in {} |-> ""]

\* Document._load_existing_comments
load_existing_comments(S) ==
    IF S.err # "ok" \/ ~Exists(S.ws[COMMENTS]) THEN S
    ELSE LET T == open(S, COMMENTS)
             r == LoadComments(T.ed[COMMENTS],
                               getElementsByTagName(T.ed[COMMENTS], "w:comment"),
                               NoComments)
         IN  IF r.err # "ok" THEN Raise(T, r.err) ELSE [T EXCEPT !.idx = r.idx]

RECURSIVE MaxCommentId(_, _, _)
MaxCommentId(root, cs, acc) ==
    IF cs = <<>> THEN acc
    ELSE LET comment_id == getAttribute(NodeAt(root, Head(cs)), "w:id") IN
         MaxCommentId(root, Tail(cs),
                      IF comment_id # "" /\ IsInt(comment_id)
                      THEN Max(acc, int(comment_id)) ELSE acc)

\* The mutant: the next id is the number of comments in the part.
next_comment_id_of_Count(root) == Len(getElementsByTagName(root, "w:comment"))

\* The value _get_next_comment_id computes from the comment-body part.
next_comment_id_of(root) ==
    MaxCommentId(root, getElementsByTagName(root, "w:comment"), -1) + 1

\* Document._get_next_comment_id
get_next_comment_id(S) ==
    IF S.err # "ok" THEN S
    ELSE IF ~Exists(S.ws[COMMENTS]) THEN [S EXCEPT !.next = 0]
    ELSE LET T == open(S, COMMENTS) IN
         [T EXCEPT !.next = next_comment_id_of(T.ed[COMMENTS])]

\* Document._has_relationship
has_relationship(root, target) ==
    LET es == getElementsByTagName(root, "Relationship") IN
    \E i \in 1..Len(es) : getAttribute(NodeAt(root, es[i]), "Target") = target

\* Document._has_override
has_override(root, part_name) ==
    LET es == getElementsByTagName(root, "Override") IN
    \E i \in 1..Len(es) : getAttribute(NodeAt(root, es[i]), "PartName") = part_name

\* The mutant: the name is compared in its escaped form.
has_author_Escaped(root, who) ==
    LET es == getElementsByTagName(root, "w15:person") IN
    \E i \in 1..Len(es) :
        LET person == NodeAt(root, es[i]) IN
        hasAttribute(person, "w15:author") /\ person.attrs["w15:author"] = html_escape(who)

\* Document._has_author
has_author(root, who) ==
    LET es == getElementsByTagName(root, "w15:person") IN
    \E i \in 1..Len(es) :
        LET person == NodeAt(root, es[i]) IN
        hasAttribute(person, "w15:author") /\ person.attrs["w15:author"] = who

\* root_tag.split(":")[0] + ":" if ":" in root_tag else "", for the root tags
\* of relationship parts
RelPrefix(root_tag) == IF root_tag = "rel:Relationships" THEN "rel:" ELSE ""

PeopleCT == "application/vnd.openxmlformats-officedocument.wordprocessingml.people+xml"
PeopleRelType == "http://schemas.microsoft.com/office/2011/relationships/people"

Override(part_name, content_type) ==
    Elem("Override", [a \in {"PartName", "ContentType"} |->
                         IF a = "PartName" THEN part_name ELSE content_type], <<>>)

Relationship(prefix, n, type, target) ==
    Elem(prefix \o "Relationship",
         [a \in {"Id", "Type", "Target"} |->
             CASE a = "Id" -> rid(n) [] a = "Type" -> type [] OTHER -> target], <<>>)

\* Document._add_content_type_for_people
add_content_type_for_people(S) ==
    LET T == open(S, CTYPES) IN
    IF T.err # "ok" \/ has_override(T.ed[CTYPES], "/word/people.xml") THEN T
    ELSE Apply(T, CTYPES, append_to(T.ed[CTYPES], <<>>,
                                    << Override("/word/people.xml", PeopleCT) >>,
                                    T.who, SpareHex))

\* Document._add_relationship_for_people
add_relationship_for_people(S) ==
    LET T == open(S, RELS) IN
    IF T.err # "ok" \/ has_relationship(T.ed[RELS], "people.xml") THEN T
    ELSE Apply(T, RELS,
               append_to(T.ed[RELS], <<>>,
                         << Relationship(RelPrefix(T.ed[RELS].tag),
                                         get_next_rid(T.ed[RELS]),
                                         PeopleRelType, "people.xml") >>,
                         T.who, SpareHex))

Rsid(tag) == Elem(tag, A1("w:val", SessionRsid), <<>>)

\* Document._update_settings
update_settings(S) ==
    LET T == open(S, SETTINGS) IN
    IF T.err # "ok" THEN T
    ELSE
    LET ed == T.ed[SETTINGS]
        root == get_node(ed, ByAttrs("w:settings", NoAttrs))
        rsids_elements == getElementsByTagName(ed, "w:rsids")
        compat_elements == getElementsByTagName(ed, "w:compat")
        rsids_xml == << Elem("w:rsids", NoAttrs,
                             << Rsid("w:rsidRoot"), Rsid("w:rsid") >>) >>
    IN  IF root.status # "ok" THEN Raise(T, root.status)
        ELSE IF rsids_elements = <<>>
        THEN (IF compat_elements # <<>>
              THEN Apply(T, SETTINGS, insert_after(ed, compat_elements[1], rsids_xml,
                                                   T.who, SpareHex))
              ELSE Apply(T, SETTINGS, append_to(ed, root.path, rsids_xml, T.who, SpareHex)))
        ELSE LET rsids_elem == NodeAt(ed, rsids_elements[1])
                 rs == descendantsByTagName(rsids_elem, "w:rsid")
                 rsid_exists == \E i \in 1..Len(rs) :
                     getAttribute(NodeAt(rsids_elem, rs[i]), "w:val") = SessionRsid
             IN  IF rsid_exists THEN T
                 ELSE Apply(T, SETTINGS, append_to(ed, rsids_elements[1],
                                                   << Rsid("w:rsid") >>, T.who, SpareHex))

\* Document._setup_comments
setup_comments(S) ==
    update_settings(
        add_relationship_for_people(
            add_content_type_for_people(copy_template(S, PEOPLE))))

\* The person_xml of _add_author_to_people: the name is escaped into the
\* markup and read back by the fragment's parser.
person_xml(who) ==
    << Elem("w15:person", A1("w15:author", xml_value(html_escape(who))),
            << Elem("w15:presenceInfo",
                    [a \in {"w15:providerId", "w15:userId"} |->
                        IF a = "w15:providerId" THEN << "N", "o", "n", "e" >>
                        ELSE xml_value(html_escape(who))], <<>>) >>) >>

\* Document._add_author_to_people
add_author_to_people(S, who) ==
    IF S.err # "ok" THEN S
    ELSE IF ~Exists(S.ws[PEOPLE]) THEN Raise(S, "ValueError")
    ELSE LET T == open(S, PEOPLE)
             root == get_node(T.ed[PEOPLE], ByAttrs("w15:people", NoAttrs))
         IN  IF root.status # "ok" THEN Raise(T, root.status)
             ELSE IF has_author(T.ed[PEOPLE], who) THEN T
             ELSE Apply(T, PEOPLE, append_to(T.ed[PEOPLE], root.path, person_xml(who),
                                             T.who, SpareHex))

\* condense_xml of pack.py: the blank text nodes are removed, except below
\* an element whose tag ends in ":t".
RECURSIVE condense_xml(_)
condense_xml(n) ==
    IF n.tag \in {"w:t", "#text", "#absent"} THEN n
    ELSE LET kept == SelectSeq(n.kids,
                        LAMBDA k : ~(k.tag = "#text" /\ k.data # <<>> /\ IsBlank(k.data)))
         IN  [n EXCEPT !.kids = [i \in 1..Len(kept) |-> condense_xml(kept[i])]]

\* pack_document(original_path, original_docx, validate=False)
pack_document(dir) == [p \in Parts |-> condense_xml(dir[p])]

NoFiles == [p \in Parts |-> Absent]

\* Document.__init__(unpacked_dir, rsid, author, initials), after the copy of
\* the package into the workspace
init_document(dir, who) ==
    add_author_to_people(
        setup_comments(
            open(get_next_comment_id(
                     load_existing_comments(
                         [ws |-> dir, ed |-> NoFiles, idx |-> NoComments, next |-> 0,
                          who |-> who, err |-> "ok"])),
                 DOC)),
        who)

(***************************************************************************)
(* Document.save and the finalization of the registries.                   *)
(***************************************************************************)
CommentTargets ==
    << "comments.xml", "commentsExtended.xml", "commentsIds.xml", "commentsExtensible.xml" >>

CommentRelTypes ==
    << "http://schemas.openxmlformats.org/officeDocument/2006/relationships/comments",
       "http://schemas.microsoft.com/office/2011/relationships/commentsExtended",
       "http://schemas.microsoft.com/office/2016/09/relationships/commentsIds",
       "http://schemas.microsoft.com/office/2018/08/relationships/commentsExtensible" >>

CommentPartNames ==
    << "/word/comments.xml", "/word/commentsExtended.xml", "/word/commentsIds.xml",
       "/word/commentsExtensible.xml" >>

CommentContentTypes ==
    << "application/vnd.openxmlformats-officedocument.wordprocessingml.comments+xml",
       "application/vnd.openxmlformats-officedocument.wordprocessingml.commentsExtended+xml",
       "application/vnd.openxmlformats-officedocument.wordprocessingml.commentsIds+xml",
       "application/vnd.openxmlformats-officedocument.wordprocessingml.commentsExtensible+xml" >>

\* Document._ensure_comment_relationships
ensure_comment_relationships(S) ==
    LET T == open(S, RELS) IN
    IF T.err # "ok" \/ has_relationship(T.ed[RELS], "comments.xml") THEN T
    ELSE LET prefix == RelPrefix(T.ed[RELS].tag)
             next_rid_num == get_next_rid(T.ed[RELS])
             rels == [i \in 1..4 |-> Relationship(prefix, next_rid_num + i - 1,
                                                  CommentRelTypes[i], CommentTargets[i])]
         IN  Apply(T, RELS, append_to(T.ed[RELS], <<>>, rels, T.who, SpareHex))

\* Document._ensure_comment_content_types
ensure_comment_content_types(S) ==
    LET T == open(S, CTYPES) IN
    IF T.err # "ok" \/ has_override(T.ed[CTYPES], "/word/comments.xml") THEN T
    ELSE LET overrides == [i \in 1..4 |-> Override(CommentPartNames[i],
                                                   CommentContentTypes[i])]
         IN  Apply(T, CTYPES, append_to(T.ed[CTYPES], <<>>, overrides, T.who, SpareHex))

\* editor.save() for every cached editor: dom.toxml written to the part's file
save_editors(S) ==
    IF S.err # "ok" THEN S
    ELSE [S EXCEPT !.ws = [p \in Parts |-> IF Exists(S.ed[p]) THEN S.ed[p] ELSE S.ws[p]]]

\* Document.validate, given the verdict of DOCXSchemaValidator.validate
validate(S, verdict) == IF S.err # "ok" \/ verdict THEN S ELSE Raise(S, "ValidationFailure")

\* The steps of Document.save that precede the copy to the target.
save_workspace(S, do_validate, verdict) ==
    LET S1 == IF Exists(S.ws[COMMENTS])
              THEN ensure_comment_content_types(ensure_comment_relationships(S))
              ELSE S
        S2 == save_editors(S1)
    IN  IF do_validate THEN validate(S2, verdict) ELSE S2

\* shutil.copytree(src, target, dirs_exist_ok=True): the files of src are
\* written over target, the other files of target stay.
copytree(src, target) ==
    [p \in Parts |-> IF Exists(src[p]) THEN src[p] ELSE target[p]]

\* The mutant: the workspace is copied before the validation.
copy_on_save_Always(S, target) == copytree(S.ws, target)

\* The last step of Document.save: reached only when nothing raised.
copy_on_save(S, target) == IF S.err = "ok" THEN copytree(S.ws, target) ELSE target

(***************************************************************************)
(* DOCXSchemaValidator (ooxml/validation/docx.py and base.py).             *)
(* What the checks read in the files is given by the facts F of a run:     *)
(* F.malformed, the files the parser rejects; F.broken[c], the files in    *)
(* which the rule of check c is broken; F.cur[f], the messages of          *)
(* schema.error_log for the edited file f; F.inbase, the files the         *)
(* original archive holds, and F.old[f], the messages for the file of the  *)
(* archive; F.paras, the numbers of w:p of the original and of the edited  *)
(* document.xml.                                                           *)
(***************************************************************************)
ITEM == "customXml/item1.xml"

\* self.xml_files: the *.xml and *.rels files of the unpacked directory
xml_files == << CTYPES, DOC, COMMENTS, RELS, ITEM >>

\* xml_file.name
PathName(f) ==
    CASE f = CTYPES -> "[Content_Types].xml"
      [] f = DOC -> "document.xml"
      [] f = COMMENTS -> "comments.xml"
      [] f = RELS -> "document.xml.rels"
      [] f = ITEM -> "item1.xml"

\* xml_file.suffix
PathSuffix(f) == IF f = RELS THEN ".rels" ELSE ".xml"

\* xml_file.parent.name
PathParent(f) ==
    CASE f = CTYPES -> ""
      [] f \in {DOC, COMMENTS} -> "word"
      [] f = RELS -> "_rels"
      [] f = ITEM -> "customXml"

\* xml_file.parent / "_rels" / f"{xml_file.name}.rels"
RelsFileOf(f) == IF f = DOC THEN RELS ELSE "word/_rels/" \o PathName(f) \o ".rels"

SCHEMA_MAPPINGS ==
    [n \in { "word", "ppt", "xl", "[Content_Types].xml", "app.xml", "core.xml",
             "custom.xml", ".rels", "people.xml", "commentsIds.xml",
             "commentsExtensible.xml", "commentsExtended.xml" } |->
        CASE n = "word" -> "ISO-IEC29500-4_2016/wml.xsd"
          [] n = "ppt" -> "ISO-IEC29500-4_2016/pml.xsd"
          [] n = "xl" -> "ISO-IEC29500-4_2016/sml.xsd"
          [] n = "[Content_Types].xml" -> "ecma/fouth-edition/opc-contentTypes.xsd"
          [] n = "app.xml" -> "ISO-IEC29500-4_2016/shared-documentPropertiesExtended.xsd"
          [] n = "core.xml" -> "ecma/fouth-edition/opc-coreProperties.xsd"
          [] n = "custom.xml" -> "ISO-IEC29500-4_2016/shared-documentPropertiesCustom.xsd"
          [] n = ".rels" -> "ecma/fouth-edition/opc-relationships.xsd"
          [] n = "people.xml" -> "microsoft/wml-2012.xsd"
          [] n = "commentsIds.xml" -> "microsoft/wml-cid-2016.xsd"
          [] n = "commentsExtensible.xml" -> "microsoft/wml-cex-2018.xsd"
          [] n = "commentsExtended.xml" -> "microsoft/wml-2012.xsd"]

MAIN_CONTENT_FOLDERS == { "word", "ppt", "xl" }

\* BaseSchemaValidator._get_schema_path ("None": no schema applies); the
\* model has no chart and no theme file
get_schema_path(f) ==
    IF PathName(f) \in DOMAIN SCHEMA_MAPPINGS THEN SCHEMA_MAPPINGS[PathName(f)]
    ELSE IF PathSuffix(f) = ".rels" THEN SCHEMA_MAPPINGS[".rels"]
    ELSE IF PathParent(f) \in MAIN_CONTENT_FOLDERS THEN SCHEMA_MAPPINGS[PathParent(f)]
    ELSE "None"

\* str(e) of the exception the parser raises on a file that is not well-formed
SyntaxErrorMessage == "XMLSyntaxError"

\* BaseSchemaValidator._validate_single_file_xsd: messages is what
\* schema.error_log holds after schema.validate(xml_doc)
validate_single_file_xsd(f, messages, wellformed) ==
    IF get_schema_path(f) = "None" THEN [is_valid |-> "None", errors |-> {}]
    ELSE IF ~wellformed THEN [is_valid |-> "False", errors |-> {SyntaxErrorMessage}]
    ELSE IF messages = {} THEN [is_valid |-> "True", errors |-> {}]
    ELSE [is_valid |-> "False", errors |-> messages]

\* BaseSchemaValidator._get_original_file_errors
get_original_file_errors(F, f) ==
    IF f \notin F.inbase THEN {}
    ELSE validate_single_file_xsd(f, F.old[f], TRUE).errors

\* The mutant: the messages of the baseline are not subtracted.
validate_file_against_xsd_NoBaseline(F, f) ==
    LET r == validate_single_file_xsd(f, F.cur[f], f \notin F.malformed)
    IN  [is_valid |-> r.is_valid, new_errors |-> r.errors]

\* BaseSchemaValidator.validate_file_against_xsd: (is_valid, new_errors)
validate_file_against_xsd(F, f) ==
    LET r == validate_single_file_xsd(f, F.cur[f], f \notin F.malformed)
    IN  IF r.is_valid = "None" THEN [is_valid |-> "None", new_errors |-> {}]
        ELSE IF r.is_valid = "True" THEN [is_valid |-> "True", new_errors |-> {}]
        ELSE LET new_errors == r.errors \ get_original_file_errors(F, f)
             IN  IF new_errors # {}
                 THEN [is_valid |-> "False", new_errors |-> new_errors]
                 ELSE [is_valid |-> "True", new_errors |-> {}]

\* What a check returns: ok, its return value; examined, the files its loop
\* takes up; errors, the files it reports; new, for the schema check, the new
\* messages of each file.
NoMessages == [f \in Range(xml_files) |-> {}]
Checked(examined, errors, new) ==
    [ok |-> errors = {}, examined |-> examined, errors |-> errors, new |-> new]

\* BaseSchemaValidator.validate_against_xsd
validate_against_xsd(F) ==
    LET r == [f \in Range(xml_files) |-> validate_file_against_xsd(F, f)]
    IN  Checked(Range(xml_files),
                { f \in Range(xml_files) : r[f].is_valid = "False" },
                [f \in Range(xml_files) |-> r[f].new_errors])

\* BaseSchemaValidator.validate_xml
validate_xml(F) ==
    Checked(Range(xml_files), { f \in Range(xml_files) : f \in F.malformed }, NoMessages)

\* The checks of the battery that follow the well-formedness check, in the
\* order validate calls them.
BATTERY ==
    << "namespaces", "unique_ids", "file_references", "content_types", "xsd",
       "whitespace", "deletions", "insertions", "relationship_ids" >>

\* The files the loop of a check takes up (the files it does not `continue`
\* past before reading them).
Scope(c, f) ==
    CASE c \in {"whitespace", "deletions", "insertions"} -> PathName(f) = "document.xml"
      [] c = "relationship_ids" ->
            PathSuffix(f) # ".rels" /\ RelsFileOf(f) \in Range(xml_files)
      [] c = "content_types" -> f \notin {RELS, CTYPES}
      [] OTHER -> TRUE

\* The files a check parses when it takes up f.
Parses(c, f) ==
    CASE c = "relationship_ids" -> {RelsFileOf(f), f}
      [] c = "file_references" -> IF PathSuffix(f) = ".rels" THEN {f} ELSE {}
      [] c = "content_types" -> {CTYPES, f}
      [] OTHER -> {f}

\* What the except clause of a check does with a file that does not parse:
\* it goes on to the next file, or it reports the file.
OnSyntaxError(c, f, unparsed) ==
    CASE c = "namespaces" -> "continue"
      [] c = "content_types" -> IF CTYPES \in unparsed THEN "error" ELSE "continue"
      [] OTHER -> "error"

\* One of the checks whose rule the facts decide: validate_namespaces,
\* validate_unique_ids, validate_file_references, validate_content_types,
\* validate_whitespace_preservation, validate_deletions, validate_insertions,
\* validate_all_relationship_ids.
check_rule(F, c) ==
    LET examined == { f \in Range(xml_files) : Scope(c, f) }
        errors == { f \in examined :
                      LET unparsed == Parses(c, f) \cap F.malformed
                      IN  IF unparsed # {}
                          THEN OnSyntaxError(c, f, unparsed) = "error"
                          ELSE f \in F.broken[c] }
    IN  Checked(examined, errors, NoMessages)

run_check(F, c) == IF c = "xsd" THEN validate_against_xsd(F) ELSE check_rule(F, c)

\* DOCXSchemaValidator.compare_paragraph_counts: the difference it prints
compare_paragraph_counts(F) == F.paras[2] - F.paras[1]

\* The mutant: the battery stops at the first check that fails.
checks_run_ShortCircuit(r) ==
    LET failing == { i \in 1..Len(BATTERY) : ~r[BATTERY[i]].ok }
    IN  IF failing = {} THEN BATTERY
        ELSE SubSeq(BATTERY, 1, CHOOSE i \in failing : \A j \in failing : i <= j)

\* The checks validate calls once the files are well-formed, r being what
\* each returns: no return stands between them.
checks_run(r) == BATTERY

\* The mutant: a change of the number of paragraphs fails the validation.
all_valid_WithCounts(r, ran, diff) == (\A c \in Range(ran) : r[c].ok) /\ diff = 0

\* all_valid of validate: False as soon as one of the checks returned False
all_valid(r, ran, diff) == \A c \in Range(ran) : r[c].ok

\* DOCXSchemaValidator.validate
validate_docx(F) ==
    LET x == validate_xml(F)
    IN  IF ~x.ok
        THEN [op |-> "validate", file |-> "", result |-> FALSE, ran |-> << "xml" >>,
              checks |-> [c \in {"xml"} |-> x], diff |-> 0]
        ELSE LET r == [c \in Range(BATTERY) |-> run_check(F, c)]
                 ran == checks_run(r)
                 diff == compare_paragraph_counts(F)
             IN  [op |-> "validate", file |-> "",
                  result |-> all_valid(r, ran, diff),
                  ran |-> << "xml" >> \o ran \o << "paragraph_counts" >>,
                  checks |-> [c \in Range(ran) \cup {"xml"} |->
                                 IF c = "xml" THEN x ELSE r[c]],
                  diff |-> diff]

\* The facts of the runs of the model.
Msgs == { "m1", "m2" }

NoBroken == [c \in Range(BATTERY) |-> {}]

BrokenCases ==
    {NoBroken}
    \cup { [NoBroken EXCEPT ![c] = {f}] :
             c \in Range(BATTERY) \ {"xsd"}, f \in {DOC, COMMENTS} }
    \cup { [NoBroken EXCEPT !["namespaces"] = {COMMENTS}, !["insertions"] = {DOC}] }

\* The schema's messages for comments.xml: (edited, archive, in the archive)
CommentsCases ==
    { << {}, {}, TRUE >>, << {"m1"}, {"m1"}, TRUE >>,
      << {"m1"}, {}, FALSE >>, << {"m1", "m2"}, {"m2"}, TRUE >> }

Facts ==
    { [malformed |-> bad, broken |-> b,
       cur |-> [NoMessages EXCEPT ![DOC] = cur, ![COMMENTS] = cc[1]],
       old |-> [NoMessages EXCEPT ![DOC] = old, ![COMMENTS] = cc[2]],
       inbase |-> {CTYPES, DOC, RELS, ITEM} \cup (IF cc[3] THEN {COMMENTS} ELSE {}),
       paras |-> paras] :
        bad \in SUBSET {DOC, COMMENTS}, b \in BrokenCases,
        cur \in SUBSET Msgs, old \in { {}, {"m1"}, {"m1", "m2"} },
        cc \in CommentsCases, paras \in { << 1, 1 >>, << 1, 2 >>, << 2, 1 >> } }

NoFacts ==
    [malformed |-> {}, broken |-> NoBroken, cur |-> NoMessages, old |-> NoMessages,
     inbase |-> {}, paras |-> << 0, 0 >>]

NoOutcome ==
    [op |-> "none", file |-> "", result |-> FALSE, ran |-> << >>,
     checks |-> [c \in {} |-> {}], diff |-> 0]

\* No validator has run.
NoValidation == [in |-> NoFacts, out |-> NoOutcome]


(***************************************************************************)
(* The packages a session is opened on.                                    *)
(***************************************************************************)
LoadedPara2 == "0000000D"

TextRun == Elem("w:r", NoAttrs, << Elem("w:t", NoAttrs, << Text(<< "H", "i" >>) >>) >>)

\* The reference run of a comment, as a package holds it.
RefRun(id) ==
    Elem("w:r", NoAttrs, << Elem("w:commentReference", A1("w:id", str(id)), <<>>) >>)

RECURSIVE StartAnchors(_)
StartAnchors(ids) ==
    IF ids = <<>> THEN <<>>
    ELSE comment_range_start_xml(Head(ids)) \o StartAnchors(Tail(ids))

RECURSIVE EndAnchors(_)
EndAnchors(ids) ==
    IF ids = <<>> THEN <<>>
    ELSE << Elem("w:commentRangeEnd", A1("w:id", str(Head(ids))), <<>>), RefRun(Head(ids)) >>
         \o EndAnchors(Tail(ids))

\* document.xml: one paragraph with one run of text, and the anchors of the
\* comments ids around the run.
DocumentXml(ids) ==
    Elem("w:document", NoAttrs,
         << Elem("w:body", NoAttrs,
                 << Elem("w:p", NoAttrs,
                         StartAnchors(ids) \o << TextRun >> \o EndAnchors(ids)) >>) >>)

\* A comment of a loaded comments.xml: c = [id, para], para "" for a comment
\* whose paragraph has no w14:paraId.
LoadedComment(c) ==
    Elem("w:comment", A1("w:id", str(c.id)),
         << Elem("w:p", IF c.para = "" THEN NoAttrs ELSE A1("w14:paraId", c.para),
                 << Elem("w:r", NoAttrs, << Elem("w:t", NoAttrs, << Text(<< "o", "k" >>) >>) >>) >>) >>)

C(id, para) == [id |-> id, para |-> para]

CommentsXml(root_tag, cs) ==
    Elem(root_tag, NoAttrs, [i \in 1..Len(cs) |-> LoadedComment(cs[i])])

ExtendedXml(root_tag, cs) ==
    Elem(root_tag, NoAttrs,
         [i \in 1..Len(cs) |->
            Elem("w15:commentEx",
                 [a \in {"w15:paraId", "w15:done"} |->
                     IF a = "w15:paraId" THEN cs[i].para ELSE "0"], <<>>)])

IdsXml(root_tag, cs) ==
    Elem(root_tag, NoAttrs,
         [i \in 1..Len(cs) |->
            Elem("w16cid:commentId",
                 [a \in {"w16cid:paraId", "w16cid:durableId"} |-> cs[i].para], <<>>)])

ExtensibleXml(root_tag, cs) ==
    Elem(root_tag, NoAttrs,
         [i \in 1..Len(cs) |->
            Elem("w16cex:commentExtensible", A1("w16cex:durableId", cs[i].para), <<>>)])

\* The comment side of a package, by name: the comments of comments.xml, the
\* ids anchored in document.xml, which side-parts exist beside comments.xml,
\* and the part whose root element is not the expected one.
Layouts ==
    [ none        |-> [has |-> FALSE, cs |-> <<>>, anchors |-> <<>>, all |-> FALSE, odd |-> ""],
      empty       |-> [has |-> TRUE, cs |-> <<>>, anchors |-> <<>>, all |-> FALSE, odd |-> ""],
      only0       |-> [has |-> TRUE, cs |-> << C(0, LoadedPara) >>, anchors |-> << 0 >>,
                       all |-> FALSE, odd |-> ""],
      gap         |-> [has |-> TRUE, cs |-> << C(2, LoadedPara2), C(0, LoadedPara) >>,
                       anchors |-> << 0, 2 >>, all |-> TRUE, odd |-> ""],
      noPara      |-> [has |-> TRUE, cs |-> << C(1, "") >>, anchors |-> << 1 >>,
                       all |-> FALSE, odd |-> ""],
      noAnchor    |-> [has |-> TRUE, cs |-> << C(0, LoadedPara) >>, anchors |-> <<>>,
                       all |-> FALSE, odd |-> ""],
      oddComments |-> [has |-> TRUE, cs |-> <<>>, anchors |-> <<>>, all |-> FALSE,
                       odd |-> COMMENTS],
      oddExtended |-> [has |-> TRUE, cs |-> << C(0, LoadedPara) >>, anchors |-> << 0 >>,
                       all |-> TRUE, odd |-> EXTENDED],
      oddIds      |-> [has |-> TRUE, cs |-> << C(0, LoadedPara) >>, anchors |-> << 0 >>,
                       all |-> TRUE, odd |-> IDS] ]

\* The root tag a part of the layout has: a part written with another
\* prefix for the namespace has another tagName.
RootOf(L, part) == IF L.odd = part THEN "x:root" ELSE RootTag[part]

\* The registries, by what they declare: rels and types are the indexes (in
\* CommentTargets) of the comment parts declared, people says whether the
\* author directory is declared, prefix is the prefix of the elements of
\* document.xml.rels.
RelsXml(prefix, declared, people) ==
    Elem(prefix \o "Relationships", NoAttrs,
         << Relationship(prefix, 1, "styles", "styles.xml"),
            Relationship(prefix, 3, "settings", "settings.xml") >>
         \o [i \in 1..Len(declared) |->
                Relationship(prefix, 3 + i, CommentRelTypes[declared[i]],
                             CommentTargets[declared[i]])]
         \o (IF people
             THEN << Relationship(prefix, 8, PeopleRelType, "people.xml") >>
             ELSE <<>>))

TypesXml(declared, people) ==
    Elem("Types", NoAttrs,
         << Override("/word/document.xml", "main+xml") >>
         \o [i \in 1..Len(declared) |->
                Override(CommentPartNames[declared[i]], CommentContentTypes[declared[i]])]
         \o (IF people THEN << Override("/word/people.xml", PeopleCT) >> ELSE <<>>))

PeopleXml(names) ==
    Elem("w15:people", NoAttrs,
         [i \in 1..Len(names) |-> Elem("w15:person", A1("w15:author", names[i]), <<>>)])

\* settings.xml: without w:rsids (and with w:compat or not), or with a
\* w:rsids that lists the given tokens.
SettingsXml(kind) ==
    Elem("w:settings", NoAttrs,
         CASE kind = "plain" -> <<>>
           [] kind = "compat" -> << Elem("w:compat", NoAttrs, <<>>),
                                    Elem("w:zoom", NoAttrs, <<>>) >>
           [] kind = "other" -> << Elem("w:rsids", NoAttrs,
                                        << Elem("w:rsid", A1("w:val", "00FFFFFF"), <<>>) >>) >>
           [] OTHER -> << Elem("w:rsids", NoAttrs, << Rsid("w:rsidRoot"), Rsid("w:rsid") >>) >>)

\* The package of a layout L with registries that declare `rels` and `types`.
Package(L, prefix, rels, types, people, settings) ==
    [p \in Parts |->
        CASE p = DOC -> DocumentXml(L.anchors)
          [] p = COMMENTS -> IF L.has THEN CommentsXml(RootOf(L, p), L.cs) ELSE Absent
          [] p = EXTENDED -> IF L.all THEN ExtendedXml(RootOf(L, p), L.cs) ELSE Absent
          [] p = IDS -> IF L.all THEN IdsXml(RootOf(L, p), L.cs) ELSE Absent
          [] p = EXTENSIBLE -> IF L.all THEN ExtensibleXml(RootOf(L, p), L.cs) ELSE Absent
          [] p = PEOPLE -> IF people = "absent" THEN Absent
                           ELSE IF people = "configured" THEN PeopleXml(<< << "C", "l" >> >>)
                           ELSE PeopleXml(<< << "Z" >> >>)
          [] p = RELS -> RelsXml(prefix, rels, people = "configured")
          [] p = CTYPES -> TypesXml(types, people = "configured")
          [] p = SETTINGS -> SettingsXml(settings)]

\* What the registries of a package written by a word processor declare for
\* the layout: the comment parts that exist.
DeclaredFor(L) == IF ~L.has THEN <<>> ELSE IF L.all THEN << 1, 2, 3, 4 >> ELSE << 1 >>

\* What document.xml.rels and [Content_Types].xml declare: << rels, types >>.
Declarations ==
    { << <<>>, <<>> >>, << << 1 >>, <<>> >>, << <<>>, << 1 >> >>,
      << << 2, 3, 4 >>, << 2, 3, 4 >> >>, << << 1, 2, 3, 4 >>, << 1, 2, 3, 4 >> >> }

Authors == { << "C", "l" >>, << "A", "&", "B" >> }

Start(package, who) == [package |-> package, who |-> who]

\* The packages of the model and the author of the sessions opened on each:
\* every layout with the registries that fit it; one layout with registries
\* that declare any of the comment parts, in either form of the relationship
\* part; and that layout with an author directory, for either author.
Starts ==
    { Start(Package(Layouts[l], "", DeclaredFor(Layouts[l]), DeclaredFor(Layouts[l]),
                    "absent", "plain"), << "C", "l" >>) : l \in DOMAIN Layouts }
    \cup
    { Start(Package(Layouts["only0"], prefix, d[1], d[2], "absent", "compat"),
            << "C", "l" >>) :
        prefix \in {"", "rel:"}, d \in Declarations }
    \cup
    { Start(Package(Layouts["only0"], prefix, << 1 >>, << 1 >>, people,
                    IF people = "configured" THEN "same" ELSE "other"), who) :
        prefix \in {"", "rel:"}, people \in {"configured", "fileOnly"},
        who \in Authors }

Texts == { << "a", "<", "b" >> }

\* No file is held by a stand-alone XMLEditor.
NoFile == [input |-> << >>, stored |-> << >>, encoding |-> "none"]

\* No mutation of a DocxXMLEditor has returned nodes.
NoNodes == [given |-> << >>, paths |-> << >>]

\* No get_node has been made on the tree as it is.
NoLookup == [status |-> "none", path |-> << >>, f |-> ByAttrs("", NoAttrs)]

NoResult ==
    [op |-> "none", err |-> "ok", ret |-> -1, para |-> "", durable |-> "", parent |-> -1]

Init ==
    /\ pc = "closed"
    /\ \E s \in Starts : orig = s.package /\ author = s.who
    /\ dest = NoFiles
    /\ ws = NoFiles
    /\ editors = NoFiles
    /\ original_docx = NoFiles
    /\ existing_comments = NoComments
    /\ next_comment_id = 0
    /\ last = NoResult
    /\ issued = << >>
    /\ nops = 0
    /\ nsessions = 0
    /\ dom = Absent
    /\ found = NoLookup
    /\ val = NoValidation
    /\ returned = NoNodes
    /\ xml_path = NoFile

(***************************************************************************)
(* The operations of a session.                                            *)
(***************************************************************************)
Session == [ws |-> ws, ed |-> editors, idx |-> existing_comments,
            next |-> next_comment_id, who |-> author, err |-> "ok"]

\* The session's fields after a method that ended in state S.
Becomes(S) ==
    /\ ws' = S.ws
    /\ editors' = S.ed
    /\ existing_comments' = S.idx
    /\ next_comment_id' = S.next

\* doc = Document(unpacked_dir, author=author)
Construct ==
    /\ pc = "closed"
    /\ nsessions < MaxSessions
    /\ LET S == init_document(orig, author) IN
       /\ Becomes(S)
       /\ pc' = IF S.err = "ok" THEN "open" ELSE "closed"
       /\ last' = [NoResult EXCEPT !.op = "init", !.err = S.err]
    /\ original_docx' = pack_document(orig)
    /\ issued' = << >>
    /\ nsessions' = nsessions + 1
    /\ UNCHANGED << orig, dest, author, nops, dom, found, val, returned, xml_path >>

\* The nodes a caller passes as start or end: a paragraph or a run of text
\* of document.xml.
Selectable(doc) ==
    { p \in Range(AllPaths(doc)) :
        \/ NodeAt(doc, p).tag = "w:p"
        \/ /\ NodeAt(doc, p).tag = "w:r"
           /\ \E i \in 1..Len(NodeAt(doc, p).kids) : NodeAt(doc, p).kids[i].tag = "w:t" }

\* The (start, end) a caller passes: one node, or a run and a paragraph.
Selections(doc) ==
    { se \in Selectable(doc) \X Selectable(doc) :
        se[1] = se[2] \/ (NodeAt(doc, se[1]).tag = "w:r" /\ NodeAt(doc, se[2]).tag = "w:p") }

\* id = doc.add_comment(start, end, text)
AddComment(start, end, text, para_id, durable_id) ==
    /\ pc = "open"
    /\ nops < MaxOps
    /\ LET S == add_comment(Session, start, end, text, para_id, durable_id) IN
       /\ Becomes(S)
       /\ last' = [op |-> "add", err |-> S.err,
                   ret |-> IF S.err = "ok" THEN next_comment_id ELSE -1,
                   para |-> para_id, durable |-> durable_id, parent |-> -1]
       /\ issued' = IF S.err = "ok" THEN Append(issued, next_comment_id) ELSE issued
    /\ nops' = nops + 1
    /\ UNCHANGED << pc, orig, dest, original_docx, author, nsessions, dom, found, val, returned, xml_path >>

\* id = doc.reply_to_comment(parent, text)
ReplyToComment(parent, text, para_id, durable_id) ==
    /\ pc = "open"
    /\ nops < MaxOps
    /\ LET S == reply_to_comment(Session, parent, text, para_id, durable_id) IN
       /\ Becomes(S)
       /\ last' = [op |-> "reply", err |-> S.err,
                   ret |-> IF S.err = "ok" THEN next_comment_id ELSE -1,
                   para |-> para_id, durable |-> durable_id, parent |-> parent]
       /\ issued' = IF S.err = "ok" THEN Append(issued, next_comment_id) ELSE issued
    /\ nops' = nops + 1
    /\ UNCHANGED << pc, orig, dest, original_docx, author, nsessions, dom, found, val, returned, xml_path >>

\* The mutant: a save to the original directory packs the snapshot again.
Save_Resnapshot(to_original, check) ==
    /\ pc = "open"
    /\ nops < MaxOps
    /\ LET S == save_workspace(Session, check # "skipped", check = "valid") IN
       /\ Becomes(S)
       /\ last' = [NoResult EXCEPT !.op = "save", !.err = S.err]
       /\ IF to_original
          THEN orig' = copy_on_save(S, orig) /\ dest' = dest
          ELSE dest' = copy_on_save(S, dest) /\ orig' = orig
    /\ original_docx' = IF to_original THEN pack_document(orig') ELSE original_docx
    /\ nops' = nops + 1
    /\ UNCHANGED << pc, author, issued, nsessions, dom, found, val, returned, xml_path >>

\* doc.save(destination, validate); to_original: destination is None, so the
\* target is original_path; check: the validation is skipped (validate=False)
\* or the validator's verdict
Save(to_original, check) ==
    /\ pc = "open"
    /\ nops < MaxOps
    /\ LET S == save_workspace(Session, check # "skipped", check = "valid") IN
       /\ Becomes(S)
       /\ last' = [NoResult EXCEPT !.op = "save", !.err = S.err]
       /\ IF to_original
          THEN orig' = copy_on_save(S, orig) /\ dest' = dest
          ELSE dest' = copy_on_save(S, dest) /\ orig' = orig
    /\ nops' = nops + 1
    /\ UNCHANGED << pc, original_docx, author, issued, nsessions, dom, found, val, returned, xml_path >>

\* Document.__del__: the temporary directory is removed
Close ==
    /\ pc = "open"
    /\ pc' = "closed"
    /\ ws' = NoFiles
    /\ editors' = NoFiles
    /\ original_docx' = NoFiles
    /\ existing_comments' = NoComments
    /\ next_comment_id' = 0
    /\ last' = [NoResult EXCEPT !.op = "close"]
    /\ issued' = << >>
    /\ UNCHANGED << orig, dest, author, nops, nsessions, dom, found, val, returned, xml_path >>

Next ==
    \/ Construct
    \/ \E se \in Selections(editors[DOC]), text \in Texts, h \in HexDraws :
            AddComment(se[1], se[2], text, h[1], h[2])
    \/ \E parent \in (DOMAIN existing_comments) \cup {next_comment_id},
          text \in Texts, h \in HexDraws :
            ReplyToComment(parent, text, h[1], h[2])
    \/ \E to_original \in BOOLEAN, check \in {"skipped", "valid", "invalid"} :
            Save(to_original, check)
    \/ Close

Spec == Init /\ [][Next]_vars


(***************************************************************************)
(* The properties of the comment operations.                               *)
(***************************************************************************)
\* The tree of a part as the session holds it: the tree of the cached
\* editor, or the stored file when the part has not been opened.
TreeOf(ed, files, part) == IF Exists(ed[part]) THEN ed[part] ELSE files[part]

\* The element that is a per-comment record of each side-part.
RecordTag ==
    [p \in SideParts |->
        CASE p = COMMENTS -> "w:comment"
          [] p = EXTENDED -> "w15:commentEx"
          [] p = IDS -> "w16cid:commentId"
          [] OTHER -> "w16cex:commentExtensible"]

\* The per-comment records of a part, in document order.
Records(tree, part) ==
    LET ps == getElementsByTagName(tree, RecordTag[part])
    IN  [i \in 1..Len(ps) |-> NodeAt(tree, ps[i])]

\* The record a part holds last: the one an operation has just appended.
NewRecord(ed, files, part) == Last(Records(TreeOf(ed, files, part), part))

\* How many records a step has added to a part.
Gain(part) ==
    Len(Records(TreeOf(editors', ws', part), part))
        - Len(Records(TreeOf(editors, ws, part), part))

\* How many records the session has added to a part since it was opened.
Growth(part) ==
    Len(Records(TreeOf(editors, ws, part), part)) - Len(Records(original_docx[part], part))

\* C1: reply_to_comment called with a parent ID that is not in the index
\* raises ParentNotFound and leaves every in-memory tree, every workspace
\* file, the index and next_comment_id as they were before the call.
C1_UnknownParentChangesNothing ==
    [][ (last'.op = "reply" /\ last'.parent \notin DOMAIN existing_comments)
            => /\ last'.err = "ParentNotFound"
               /\ UNCHANGED << editors, ws, existing_comments, next_comment_id,
                               orig, dest, original_docx >> ]_vars

\* A reply to an unknown parent was refused in a session that had already
\* recorded a comment of its own.
C1_Witness ==
    /\ last.op = "reply"
    /\ last.err = "ParentNotFound"
    /\ Len(issued) = 1
    /\ last.parent \notin DOMAIN existing_comments

\* The numeric comment IDs of a comments.xml.
NumericIds(tree) ==
    LET rs == Records(tree, COMMENTS)
        ids == { getAttribute(rs[i], "w:id") : i \in 1..Len(rs) }
    IN  { n \in Numerals : str(n) \in ids }

\* C2: the IDs returned by the successful add_comment and reply_to_comment
\* calls of a session are strictly increasing; the first of them is m + 1
\* when the comments.xml of the package held comments of maximum numeric ID
\* m, and 0 when the package had no comments.xml.
C2_IdsIncreaseFromMax ==
    /\ \A i, j \in 1..Len(issued) : i < j => issued[i] < issued[j]
    /\ issued # << >> =>
         LET baseline == original_docx[COMMENTS]
             ids == NumericIds(baseline)
         IN  /\ ~Exists(baseline) => issued[1] = 0
             /\ ids # {} => \E m \in ids : /\ \A k \in ids : k <= m
                                           /\ issued[1] = m + 1

\* Two IDs were issued on a package whose comments have the IDs 0 and 2.
C2_Witness ==
    /\ Len(issued) = 2
    /\ NumericIds(original_docx[COMMENTS]) = {0, 2}
    /\ issued = << 3, 4 >>


\* C3, as the code has it: a successful add_comment or reply_to_comment
\* appends exactly one record to each of the four side-parts; a call that
\* raises appends at most one record to each, and only to the parts that
\* come first in the order comments, commentsExtended, commentsIds,
\* commentsExtensible (nothing is rolled back).
C3_RecordsOfOneCall ==
    [][ last'.op \in {"add", "reply"}
            => /\ last'.err = "ok" => \A p \in SideParts : Gain(p) = 1
               /\ last'.err # "ok"
                    => /\ \A p \in SideParts : Gain(p) \in {0, 1}
                       /\ Gain(COMMENTS) >= Gain(EXTENDED)
                       /\ Gain(EXTENDED) >= Gain(IDS)
                       /\ Gain(IDS) >= Gain(EXTENSIBLE) ]_vars

\* A call has raised after it appended the comment body, and the thread
\* metadata of that comment was never written.
C3_Witness ==
    /\ last.op \in {"add", "reply"}
    /\ last.err # "ok"
    /\ Growth(COMMENTS) > Growth(EXTENDED)

\* C3: between operations, also after a call that aborted part-way, each
\* comment of the session has all four of its records or none, so the four
\* side-parts have gained the same number of records.
C3_AllFourOrNone ==
    pc = "open" => \A p, q \in SideParts : Growth(p) = Growth(q)

\* Some attribute of the element n, or of an element below it, holds token.
RECURSIVE References(_, _)
References(n, token) ==
    /\ IsElement(n)
    /\ \/ \E a \in DOMAIN n.attrs : n.attrs[a] = token
       \/ \E i \in 1..Len(n.kids) : References(n.kids[i], token)

\* C4, as the code has it: after a successful add_comment each side-part has
\* gained one record; the comment body (in its paragraph), the thread
\* metadata and the durable-ID record carry the paragraph token the index
\* holds for the returned ID; the durable-extension record carries the
\* durable ID that the durable-ID record pairs with that token, and not the
\* token.
C4_RecordsOfAdd ==
    [][ (last'.op = "add" /\ last'.err = "ok")
            => /\ \A p \in SideParts : Gain(p) = 1
               /\ existing_comments'[last'.ret] = last'.para
               /\ LET body == NewRecord(editors', ws', COMMENTS)
                      ps == descendantsByTagName(body, "w:p")
                  IN  /\ getAttribute(body, "w:id") = str(last'.ret)
                      /\ Len(ps) = 1
                      /\ getAttribute(NodeAt(body, ps[1]), "w14:paraId") = last'.para
               /\ getAttribute(NewRecord(editors', ws', EXTENDED), "w15:paraId") = last'.para
               /\ getAttribute(NewRecord(editors', ws', IDS), "w16cid:paraId") = last'.para
               /\ getAttribute(NewRecord(editors', ws', IDS), "w16cid:durableId")
                    = last'.durable
               /\ NewRecord(editors', ws', EXTENSIBLE).attrs
                    = A1("w16cex:durableId", last'.durable) ]_vars

\* A comment was added with a durable ID that differs from its paragraph
\* token.
C4_Witness ==
    /\ last.op = "add"
    /\ last.err = "ok"
    /\ last.para # last.durable
    /\ existing_comments[last.ret] = last.para
    /\ getAttribute(NewRecord(editors, ws, EXTENSIBLE), "w16cex:durableId") = last.durable

\* C4: after a successful add_comment each of the four side-parts has gained
\* exactly one record and each of the four new records references the
\* paragraph token stored in the index for the returned ID.
C4_EveryRecordHoldsToken ==
    [][ (last'.op = "add" /\ last'.err = "ok")
            => \A p \in SideParts :
                  /\ Gain(p) = 1
                  /\ References(NewRecord(editors', ws', p),
                                existing_comments'[last'.ret]) ]_vars

\* C5: a reply_to_comment to an ID that add_comment or reply_to_comment has
\* returned in the session succeeds; its thread-metadata record has the
\* paragraph token of that comment as parent and the token of the new comment
\* as its own; the thread-metadata record of an add_comment has no parent.
C5_ReplyToIssued ==
    [][ /\ (last'.op = "reply" /\ last'.parent \in Range(issued))
            => /\ last'.err = "ok"
               /\ LET ex == NewRecord(editors', ws', EXTENDED)
                  IN  /\ getAttribute(ex, "w15:paraIdParent")
                            = existing_comments[last'.parent]
                      /\ getAttribute(ex, "w15:paraId") = last'.para
                      /\ existing_comments'[last'.ret] = last'.para
        /\ (last'.op = "add" /\ last'.err = "ok")
            => ~hasAttribute(NewRecord(editors', ws', EXTENDED), "w15:paraIdParent") ]_vars

\* A reply to the comment that the session has just added, with a token of
\* its own.
C5_Witness ==
    /\ last.op = "reply"
    /\ last.err = "ok"
    /\ Len(issued) = 2
    /\ last.parent = issued[1]
    /\ last.para # existing_comments[last.parent]


(***************************************************************************)
(* The properties of the registries and of save.                           *)
(***************************************************************************)
\* The elements of a tree whose tag is one of tags.
ElementsOf(tree, tags) ==
    LET ps == SelectSeq(AllPaths(tree), LAMBDA p : NodeAt(tree, p).tag \in tags)
    IN  [i \in 1..Len(ps) |-> NodeAt(tree, ps[i])]

\* The relationship entries of a document.xml.rels, whatever prefix the
\* part binds to the relationships namespace.
RelationshipEntries(rels) == ElementsOf(rels, {"Relationship", "rel:Relationship"})

\* The content-type entries of [Content_Types].xml.
OverrideEntries(types) == ElementsOf(types, {"Override"})

\* The author directory's entries for a name.
PersonEntries(people, name) ==
    SelectSeq(ElementsOf(people, {"w15:person"}),
              LAMBDA e : getAttribute(e, "w15:author") = name)

DeclaresTarget(rels, target) ==
    \E i \in 1..Len(RelationshipEntries(rels)) :
        getAttribute(RelationshipEntries(rels)[i], "Target") = target

DeclaresPart(types, part_name) ==
    \E i \in 1..Len(OverrideEntries(types)) :
        getAttribute(OverrideEntries(types)[i], "PartName") = part_name

\* C8: registration is idempotent.  A session constructed for an author the
\* directory already lists adds no entry, and the directory lists each
\* session's author exactly once; a session constructed on a package that
\* already declares the relationship and the content type of the author
\* directory adds no relationship entry and no content-type entry.
C8_RegistrationIdempotent ==
    [][ (last'.op = "init" /\ last'.err = "ok")
            => /\ Len(PersonEntries(editors'[PEOPLE], author)) = 1
               /\ Len(PersonEntries(orig[PEOPLE], author)) = 1
                    => Len(ElementsOf(editors'[PEOPLE], {"w15:person"}))
                         = Len(ElementsOf(orig[PEOPLE], {"w15:person"}))
               /\ (/\ DeclaresTarget(orig[RELS], "people.xml")
                   /\ DeclaresPart(orig[CTYPES], "/word/people.xml"))
                    => /\ Len(RelationshipEntries(TreeOf(editors', ws', RELS)))
                            = Len(RelationshipEntries(orig[RELS]))
                       /\ Len(OverrideEntries(TreeOf(editors', ws', CTYPES)))
                            = Len(OverrideEntries(orig[CTYPES])) ]_vars

\* C9: after a save of a session that has a comments.xml, document.xml.rels
\* holds a relationship to each of the four comment parts and
\* [Content_Types].xml an override for each of them, whatever the package
\* declared when it was loaded.
C9_AllFourDeclared ==
    (pc = "open" /\ last.op = "save" /\ last.err = "ok" /\ Exists(ws[COMMENTS]))
        => \A i \in 1..4 :
              /\ DeclaresTarget(ws[RELS], CommentTargets[i])
              /\ DeclaresPart(ws[CTYPES], CommentPartNames[i])

\* C10: save copies the workspace to its target only after the registries
\* were finalized, every cached tree was written to its file and the
\* validation passed: a save that raises leaves the original directory and
\* the destination as they were, and a save that returns has written to its
\* target the files of a workspace that holds every cached tree and declares
\* comments.xml when it has one.
C10_CopyAfterValidation ==
    [][ last'.op = "save"
            => /\ last'.err # "ok" => (orig' = orig /\ dest' = dest)
               /\ last'.err = "ok"
                    => /\ \A p \in Parts : Exists(editors'[p]) => ws'[p] = editors'[p]
                       /\ Exists(ws'[COMMENTS])
                            => /\ DeclaresTarget(ws'[RELS], "comments.xml")
                               /\ DeclaresPart(ws'[CTYPES], "/word/comments.xml")
                       /\ \/ /\ dest' = dest
                             /\ \A p \in Parts : Exists(ws'[p]) => orig'[p] = ws'[p]
                          \/ /\ orig' = orig
                             /\ \A p \in Parts : Exists(ws'[p]) => dest'[p] = ws'[p] ]_vars

\* The validation has refused a save of a session that had added a comment,
\* and nothing was written to the destination.
C10_Witness ==
    /\ last.op = "save"
    /\ last.err = "ValidationFailure"
    /\ issued # << >>
    /\ dest = NoFiles
    /\ orig[COMMENTS] # ws[COMMENTS]


(***************************************************************************)
(* A stand-alone XMLEditor: one parsed file, the four mutations and        *)
(* get_node.  The session variables stay as they are without a Document.   *)
(* A run is a number of mutations and then one lookup: a lookup changes    *)
(* nothing that a later call could read.                                   *)
(***************************************************************************)
\* An element the parser has read at a line of the file (parse_position).
Parsed(tag, attrs, kids, line) ==
    [tag |-> tag, attrs |-> attrs, kids |-> kids, line |-> line]

Indent == Text(<< "\n", " " >>)

\* The files: a body of two paragraphs, the runs of the second on one line;
\* and the same body with a second run that has the attributes of the first.
ParsedBody(second_id) ==
    Parsed("w:body", NoAttrs,
        << Indent,
           Parsed("w:p", A1("w:id", "1"),
               << Parsed("w:r", A1("w:id", "1"),
                      << Parsed("w:t", NoAttrs, << Text(<< "H", "i" >>) >>, 3) >>, 3) >>, 2),
           Indent,
           Parsed("w:p", NoAttrs,
               << Parsed("w:r", A1("w:id", second_id),
                      << Parsed("w:t", NoAttrs, << Text(<< "Q", "H" >>) >>, 4) >>, 4),
                  Parsed("w:r", NoAttrs, << Text(<< " " >>) >>, 4) >>, 4),
           NL >>, 1)

Files == { ParsedBody("2"), ParsedBody("1") }

\* The fragments a caller inserts: a run with an id, a run with that id and
\* another attribute, a run without attributes between two texts, an empty
\* run followed by a text, a text without any element, and the empty string.
Fragments ==
    { << Elem("w:r", A1("w:id", "1"), << >>) >>,
      << Elem("w:r", [a \in {"w:id", "w:x"} |-> "1"], << >>) >>,
      << NL, Elem("w:r", NoAttrs, << Elem("w:t", NoAttrs, << Text(<< "H" >>) >>) >>), NL >>,
      << Elem("w:r", NoAttrs, << >>), Text(<< "H" >>) >>,
      << Text(<< "H", "i" >>) >>,
      << >> }

\* The nodes a caller passes to a mutation: the paragraphs and runs that
\* have an id.
Targets(tree) ==
    { p \in Range(AllPaths(tree)) :
        /\ NodeAt(tree, p).tag \in {"w:p", "w:r"}
        /\ hasAttribute(NodeAt(tree, p), "w:id") }

\* The filters a caller passes to get_node: the tag and the attributes of
\* an element of the tree, a tag alone, a tag with a line or a range of
\* lines, with a text, and with all three.
Queries(tree) ==
    { ByAttrs(NodeAt(tree, p).tag, NodeAt(tree, p).attrs) :
        p \in { q \in Range(AllPaths(tree)) : IsElement(NodeAt(tree, q)) } }
    \cup { ByAttrs(tag, NoAttrs) : tag \in {"w:body", "w:r", "w:del"} }
    \cup { ByAttrs("w:r", A1("w:id", "3")) }
    \cup { Filter(tag, NoAttrs, TRUE, lines, << >>) :
            tag \in {"w:p", "w:r"}, lines \in { {2}, {4}, 0..3, {9} } }
    \cup { Filter("w:p", NoAttrs, FALSE, {}, c) :
            c \in { << "H" >>, << "&#8220;" >>, << "H", "i", "Q" >>, << "Z" >> } }
    \cup { Filter("w:r", A1("w:id", "1"), TRUE, {3}, << "H", "i" >>) }

InitEditor ==
    /\ pc = "editor"
    /\ dom \in Files
    /\ found = NoLookup
    /\ val = NoValidation
    /\ returned = NoNodes
    /\ xml_path = NoFile
    /\ orig = NoFiles
    /\ dest = NoFiles
    /\ ws = NoFiles
    /\ editors = NoFiles
    /\ original_docx = NoFiles
    /\ existing_comments = NoComments
    /\ next_comment_id = 0
    /\ author = << >>
    /\ last = NoResult
    /\ issued = << >>
    /\ nops = 0
    /\ nsessions = 0

\* One of the four mutations of XMLEditor, r being what it does to the tree
Mutate(op, r) ==
    /\ nops < MaxEdits
    /\ found = NoLookup
    /\ dom' = r.tree
    /\ last' = [NoResult EXCEPT !.op = op,
                                !.err = IF r.ok THEN "ok" ELSE "FragmentEmpty"]
    /\ nops' = nops + 1
    /\ UNCHANGED << pc, orig, dest, ws, editors, original_docx, existing_comments,
                    next_comment_id, author, issued, nsessions, found, val, returned, xml_path >>

\* editor.insert_before(elem, xml_content)
InsertBefore(elem, xml_content) ==
    Mutate("insert_before", xml_insert_before(dom, elem, xml_content))

\* editor.insert_after(elem, xml_content)
InsertAfter(elem, xml_content) ==
    Mutate("insert_after", xml_insert_after(dom, elem, xml_content))

\* editor.append_to(elem, xml_content)
AppendTo(elem, xml_content) ==
    Mutate("append_to", xml_append_to(dom, elem, xml_content))

\* editor.replace_node(elem, new_content)
ReplaceNode(elem, new_content) ==
    Mutate("replace_node", xml_replace_node(dom, elem, new_content))

\* editor.get_node(tag, attrs, line_number, contains)
GetNode(f) ==
    /\ found = NoLookup
    /\ LET r == get_node(dom, f) IN
       found' = [status |-> r.status, path |-> r.path, f |-> f]
    /\ last' = [NoResult EXCEPT !.op = "get_node"]
    /\ UNCHANGED << pc, orig, dest, ws, editors, original_docx, existing_comments,
                    next_comment_id, author, issued, nops, nsessions, dom, val, returned, xml_path >>

NextEditor ==
    \/ \E elem \in Targets(dom), x \in Fragments : InsertBefore(elem, x)
    \/ \E elem \in Targets(dom), x \in Fragments : InsertAfter(elem, x)
    \/ \E elem \in Targets(dom), x \in Fragments : AppendTo(elem, x)
    \/ \E elem \in Targets(dom), x \in Fragments : ReplaceNode(elem, x)
    \/ \E f \in Queries(dom) : GetNode(f)

SpecEditor == InitEditor /\ [][NextEditor]_vars


(***************************************************************************)
(* The properties of get_node.                                             *)
(***************************************************************************)
\* The elements of the tree that have the tag and pass every filter given.
Passing(tree, f) ==
    { p \in Range(AllPaths(tree)) :
        /\ IsElement(NodeAt(tree, p))
        /\ NodeAt(tree, p).tag = f.tag
        /\ PassesFilters(NodeAt(tree, p), f) }

\* C6: get_node returns an element only when exactly one element of the tree
\* passes all the filters given, and then that element; when none passes it
\* raises NotFound and when two or more pass it raises Ambiguous.
C6_ExactlyOneMatch ==
    found.status # "none"
        => LET n == Cardinality(Passing(dom, found.f))
           IN  /\ found.status = "ok" <=> n = 1
               /\ found.status = "NotFound" <=> n = 0
               /\ found.status = "Ambiguous" <=> n >= 2
               /\ found.status = "ok" => found.path \in Passing(dom, found.f)

\* A lookup by attributes, after a mutation, that two elements pass.
C6_Witness ==
    /\ found.status = "Ambiguous"
    /\ found.f.attrs # NoAttrs
    /\ nops > 0
    /\ Cardinality(Passing(dom, found.f)) = 2

\* The elements a mutation has inserted: they have no parse position.
Inserted(tree) ==
    { p \in Range(AllPaths(tree)) : IsElement(NodeAt(tree, p)) /\ Line(NodeAt(tree, p)) = 0 }

\* The element n has the value attrs gives to each of its names.
Agrees(n, attrs) == \A a \in DOMAIN attrs : getAttribute(n, a) = attrs[a]

\* The elements of the tree with the tag of the element at p and, for each
\* attribute of that element, the same value.
Alike(tree, p) ==
    { q \in Range(AllPaths(tree)) :
        /\ NodeAt(tree, q).tag = NodeAt(tree, p).tag
        /\ Agrees(NodeAt(tree, q), NodeAt(tree, p).attrs) }

\* C7, as the code has it: get_node leaves the tree as it is; the element it
\* returns has the tag and, for every filtered attribute, the value asked
\* for; called with the tag and the attributes of an inserted element E it
\* returns E when no other element has that tag and those attribute values,
\* and raises Ambiguous when another one has.
C7_LookupByOwnAttributes ==
    [][ last'.op = "get_node"
            => /\ dom' = dom
               /\ found'.status = "ok"
                    => /\ NodeAt(dom, found'.path).tag = found'.f.tag
                       /\ Agrees(NodeAt(dom, found'.path), found'.f.attrs)
               /\ \A p \in Inserted(dom) :
                    found'.f = ByAttrs(NodeAt(dom, p).tag, NodeAt(dom, p).attrs)
                        => /\ Alike(dom, p) = {p}
                                => (found'.status = "ok" /\ found'.path = p)
                           /\ Alike(dom, p) # {p} => found'.status = "Ambiguous" ]_vars

\* A lookup with the tag and the attributes of an inserted element that has
\* attributes was refused as ambiguous.
C7_Witness ==
    /\ last.op = "get_node"
    /\ found.status = "Ambiguous"
    /\ \E p \in Inserted(dom) :
          /\ NodeAt(dom, p).attrs # NoAttrs
          /\ found.f = ByAttrs(NodeAt(dom, p).tag, NodeAt(dom, p).attrs)

\* C7: get_node leaves the tree as it is; called with the tag and the
\* attributes of an inserted element E it returns exactly E, and it never
\* returns an element with another value for a filtered attribute.
C7_ReturnsTheInserted ==
    [][ last'.op = "get_node"
            => /\ dom' = dom
               /\ found'.status = "ok"
                    => Agrees(NodeAt(dom, found'.path), found'.f.attrs)
               /\ \A p \in Inserted(dom) :
                    found'.f = ByAttrs(NodeAt(dom, p).tag, NodeAt(dom, p).attrs)
                        => (found'.status = "ok" /\ found'.path = p) ]_vars


(***************************************************************************)
(* The validator on its own: one run of DOCXSchemaValidator.validate, or   *)
(* of validate_file_against_xsd on one file, on the facts of a package.    *)
(***************************************************************************)
InitValidator ==
    /\ pc = "validator"
    /\ \E F \in Facts : val = [in |-> F, out |-> NoOutcome]
    /\ returned = NoNodes
    /\ xml_path = NoFile
    /\ dom = Absent
    /\ found = NoLookup
    /\ orig = NoFiles
    /\ dest = NoFiles
    /\ ws = NoFiles
    /\ editors = NoFiles
    /\ original_docx = NoFiles
    /\ existing_comments = NoComments
    /\ next_comment_id = 0
    /\ author = << >>
    /\ last = NoResult
    /\ issued = << >>
    /\ nops = 0
    /\ nsessions = 0

\* schema_validator.validate()
Validate ==
    /\ val.out.op = "none"
    /\ val' = [val EXCEPT !.out = validate_docx(val.in)]
    /\ UNCHANGED << sessionVars, dom, found, returned, xml_path >>

\* schema_validator.validate_file_against_xsd(xml_file)
ValidateFileAgainstXsd(f) ==
    /\ val.out.op = "none"
    /\ LET r == validate_file_against_xsd(val.in, f) IN
       val' = [val EXCEPT !.out =
                  [op |-> "file_xsd", file |-> f, result |-> r.is_valid # "False",
                   ran |-> << "xsd" >>,
                   checks |-> [c \in {"xsd"} |->
                                 [ok |-> r.is_valid # "False", examined |-> {f},
                                  errors |-> IF r.is_valid = "False" THEN {f} ELSE {},
                                  new |-> [NoMessages EXCEPT ![f] = r.new_errors]]],
                   diff |-> 0]]
    /\ UNCHANGED << sessionVars, dom, found, returned, xml_path >>

NextValidator ==
    \/ Validate
    \/ \E f \in {DOC, COMMENTS, ITEM} : ValidateFileAgainstXsd(f)

SpecValidator == InitValidator /\ [][NextValidator]_vars


(***************************************************************************)
(* The properties of the validator.                                        *)
(***************************************************************************)
\* The messages of the schema check of the edited file and of the file of
\* the baseline (none when the baseline has no such file).
EditedResult(F, f) == IF f \in F.malformed THEN {SyntaxErrorMessage} ELSE F.cur[f]
BaselineResult(F, f) == IF f \in F.inbase THEN F.old[f] ELSE {}

\* C11: for every part with an applicable schema the schema check reports
\* exactly the messages of the edited part's result that are not in the
\* result of the same part of the baseline; a part is reported only when
\* that set is not empty, so a package with the same failures before and
\* after the edit gets no violation, even when the failures are not none.
C11_OnlyNewMessages ==
    "xsd" \in DOMAIN val.out.checks
        => LET k == val.out.checks["xsd"]
               F == val.in
               new(f) == EditedResult(F, f) \ BaselineResult(F, f)
           IN  /\ \A f \in k.examined :
                    IF get_schema_path(f) = "None"
                    THEN k.new[f] = {} /\ f \notin k.errors
                    ELSE k.new[f] = new(f) /\ (f \in k.errors <=> new(f) # {})
               /\ k.ok <=> \A f \in k.examined : get_schema_path(f) # "None" => new(f) = {}

\* A run of the whole battery on a package whose parts fail the schema in the
\* same way before and after the edit: the schema check passes.
C11_Witness ==
    /\ val.out.op = "validate"
    /\ "xsd" \in DOMAIN val.out.checks
    /\ val.out.checks["xsd"].ok
    /\ val.in.cur[DOC] = {"m1", "m2"} /\ val.in.old[DOC] = {"m1", "m2"}
    /\ val.in.cur[COMMENTS] = {"m1"} /\ val.in.old[COMMENTS] = {"m1"}


Passes(F, c) ==
    CASE c = "xml" -> F.malformed = {}
      [] c = "xsd" ->
            \A f \in Range(xml_files) :
                get_schema_path(f) # "None"
                    => EditedResult(F, f) \subseteq BaselineResult(F, f)
      [] OTHER -> \A f \in Range(xml_files) : Scope(c, f) => f \notin F.broken[c]

\* C13: the validator's overall result is pass if and only if every pass/fail
\* check passes, and the comparison of the paragraph counts never changes
\* the result, whatever the difference.
C13_PassIffAllPass ==
    val.out.op = "validate"
        => /\ val.out.result <=> \A c \in {"xml"} \cup Range(BATTERY) : Passes(val.in, c)
           /\ \A n, k \in 0..2 :
                 validate_docx([val.in EXCEPT !.paras = << n, k >>]).result = val.out.result

\* A run that passes although the number of paragraphs has changed.
C13_Witness ==
    /\ val.out.op = "validate"
    /\ val.out.result
    /\ val.out.diff = 1
    /\ "paragraph_counts" \in Range(val.out.ran)


(***************************************************************************)
(* A fragment without an element.                                          *)
(***************************************************************************)
HasElement(nodes) == \E i \in 1..Len(nodes) : IsElement(nodes[i])

\* The step is one of the four mutations, called on elem with the fragment x
MutationWith(elem, x) ==
    \/ InsertBefore(elem, x)
    \/ InsertAfter(elem, x)
    \/ AppendTo(elem, x)
    \/ ReplaceNode(elem, x)

\* C14: each of the four mutations, called with a fragment that holds no
\* element, fails with FragmentEmpty and leaves the tree as it was: nothing
\* is inserted, and the target of replace_node is still in place.
C14_EmptyFragmentChangesNothing ==
    [][\A elem \in Targets(dom), x \in Fragments :
          (~HasElement(x) /\ MutationWith(elem, x))
              => /\ last'.err = "FragmentEmpty"
                 /\ dom' = dom
                 /\ NodeAt(dom', elem) = NodeAt(dom, elem)]_vars

\* replace_node has been called with a fragment without an element
C14_Witness ==
    /\ pc = "editor"
    /\ last.op = "replace_node"
    /\ last.err = "FragmentEmpty"
    /\ dom \in Files


(***************************************************************************)
(* A stand-alone DocxXMLEditor: one of its four mutations inserts a        *)
(* fragment and stamps the nodes it returns; the injector is then applied  *)
(* again to the same nodes, with the identifiers it generates that time.   *)
(***************************************************************************)
OwnValue == "11111111"

\* The fragments: a paragraph without attributes holding a run and a text
\* with a leading space; a paragraph with some of the attributes; a run
\* with its attribute and a text with its own xml:space, between two
\* texts; a comment without attributes; a comment with two of the three.
InjectorFragments ==
    { << Elem("w:p", NoAttrs,
            << Elem("w:r", NoAttrs,
                  << Elem("w:t", NoAttrs, << Text(<< " ", "H" >>) >>) >>) >>) >>,
      << Elem("w:p", [a \in {"w:rsidR", "w14:paraId"} |-> OwnValue], << >>) >>,
      << NL,
         Elem("w:r", A1("w:rsidR", OwnValue),
            << Elem("w:t", A1("xml:space", "default"), << Text(<< "H", " " >>) >>) >>),
         NL >>,
      << Elem("w:comment", NoAttrs, << >>) >>,
      << Elem("w:comment",
              [a \in {"w:author", "w:date"} |->
                  IF a = "w:author" THEN << "X" >> ELSE OwnValue], << >>) >> }

\* The files the editor is built on: those of Files, whose root declares
\* nothing, and one whose root declares the prefix w14 with a value of its
\* own.
OwnW14 == "urn:w14"
InjectorFiles ==
    Files \cup { [ParsedBody("2") EXCEPT !.attrs = A1("xmlns:w14", OwnW14)] }

InitInjector ==
    /\ pc = "injector"
    /\ dom \in InjectorFiles
    /\ author \in Authors
    /\ returned = NoNodes
    /\ xml_path = NoFile
    /\ found = NoLookup
    /\ val = NoValidation
    /\ orig = NoFiles
    /\ dest = NoFiles
    /\ ws = NoFiles
    /\ editors = NoFiles
    /\ original_docx = NoFiles
    /\ existing_comments = NoComments
    /\ next_comment_id = 0
    /\ last = NoResult
    /\ issued = << >>
    /\ nops = 0
    /\ nsessions = 0

\* One of the four mutations of DocxXMLEditor, r being what it does
DocxMutate(op, xml_content, r) ==
    /\ returned = NoNodes
    /\ r.ok
    /\ dom' = r.tree
    /\ returned' = [given |-> xml_content, paths |-> r.paths]
    /\ last' = [NoResult EXCEPT !.op = op]
    /\ nops' = 1
    /\ UNCHANGED << pc, orig, dest, ws, editors, original_docx, existing_comments,
                    next_comment_id, author, issued, nsessions, found, val, xml_path >>

DocxInsertBefore(elem, xml_content, hex) ==
    DocxMutate("insert_before", xml_content,
               insert_before(dom, elem, xml_content, author, hex))

DocxInsertAfter(elem, xml_content, hex) ==
    DocxMutate("insert_after", xml_content,
               insert_after(dom, elem, xml_content, author, hex))

DocxAppendTo(elem, xml_content, hex) ==
    DocxMutate("append_to", xml_content,
               append_to(dom, elem, xml_content, author, hex))

DocxReplaceNode(elem, new_content, hex) ==
    DocxMutate("replace_node", new_content,
               replace_node(dom, elem, new_content, author, hex))

\* editor._inject_attributes_to_nodes(nodes) on the nodes a mutation returned
Reinject(hex) ==
    /\ returned # NoNodes
    /\ nops < MaxInjections
    /\ dom' = inject_attributes_to_nodes(dom, returned.paths, author, hex)
    /\ last' = [NoResult EXCEPT !.op = "inject"]
    /\ nops' = nops + 1
    /\ UNCHANGED << pc, orig, dest, ws, editors, original_docx, existing_comments,
                    next_comment_id, author, issued, nsessions, found, val, returned, xml_path >>

\* editor.get_node(...) on a DocxXMLEditor, which inherits it from XMLEditor
DocxGetNode(f) ==
    /\ found = NoLookup
    /\ LET r == get_node(dom, f) IN
       found' = [status |-> r.status, path |-> r.path, f |-> f]
    /\ last' = [NoResult EXCEPT !.op = "get_node"]
    /\ UNCHANGED << pc, orig, dest, ws, editors, original_docx, existing_comments,
                    next_comment_id, author, issued, nops, nsessions, dom, val, returned, xml_path >>

NextInjector ==
    \/ \E elem \in Targets(dom), x \in InjectorFragments, hex \in HexIds :
          DocxInsertBefore(elem, x, hex)
    \/ \E elem \in Targets(dom), x \in InjectorFragments, hex \in HexIds :
          DocxInsertAfter(elem, x, hex)
    \/ \E elem \in Targets(dom), x \in InjectorFragments, hex \in HexIds :
          DocxAppendTo(elem, x, hex)
    \/ \E elem \in Targets(dom), x \in InjectorFragments, hex \in HexIds :
          DocxReplaceNode(elem, x, hex)
    \/ \E hex \in HexIds : Reinject(hex)
    \/ \E f \in Queries(dom) : DocxGetNode(f)

SpecInjector == InitInjector /\ [][NextInjector]_vars

\* Every attribute of the node a, and of the nodes below it, has its value
\* in the node b.
RECURSIVE Keeps(_, _)
Keeps(a, b) ==
    \/ a.tag = "#text" /\ b = a
    \/ /\ a.tag # "#text"
       /\ b.tag = a.tag
       /\ \A name \in DOMAIN a.attrs : hasAttribute(b, name) /\ b.attrs[name] = a.attrs[name]
       /\ Len(b.kids) = Len(a.kids)
       /\ \A i \in 1..Len(a.kids) : Keeps(a.kids[i], b.kids[i])

\* C15: the attribute injector never overwrites an attribute that an
\* inserted element already carries, and it is idempotent: applied again to
\* the nodes it has stamped, whatever the author and the identifiers it
\* would write that time, it changes no attribute value.
C15_InjectorKeepsAndIsIdempotent ==
    (pc = "injector" /\ returned # NoNodes)
        => /\ \A i \in 1..Len(returned.paths) :
                 Keeps(returned.given[i], NodeAt(dom, returned.paths[i]))
           /\ \A who \in Authors, hex \in HexIds \cup {SpareHex} :
                 inject_attributes_to_nodes(dom, returned.paths, who, hex) = dom

\* The injector has been applied a second time to a paragraph that came with
\* an identifier of its own and was given the session's revision attributes.
C15_Witness ==
    /\ pc = "injector"
    /\ last.op = "inject"
    /\ \E i \in 1..Len(returned.paths) :
          LET n == NodeAt(dom, returned.paths[i]) IN
          /\ n.tag = "w:p"
          /\ getAttribute(n, "w14:paraId") = OwnValue
          /\ getAttribute(n, "w14:textId") \in HexIds
          /\ getAttribute(n, "w:rsidP") = SessionRsid


(***************************************************************************)
(* A session with everything its caller can do between construction and   *)
(* teardown: the comment operations and save, and also lookups and         *)
(* mutations on the editor of a part (doc[part]) and doc.validate().  The  *)
(* packages are few; one has a document.xml written with indentation.      *)
(***************************************************************************)
\* document.xml as the unpacking writes it, indented
PrettyDocumentXml(ids) ==
    Elem("w:document", NoAttrs,
         << Indent,
            Elem("w:body", NoAttrs,
                 << Indent,
                    Elem("w:p", NoAttrs,
                         StartAnchors(ids) \o << TextRun >> \o EndAnchors(ids)),
                    NL >>),
            NL >>)

\* document.xml with the start anchors of the comments starts and the end
\* anchors and references of the comments ends
UnevenDocumentXml(starts, ends) ==
    Elem("w:document", NoAttrs,
         << Elem("w:body", NoAttrs,
                 << Elem("w:p", NoAttrs,
                         StartAnchors(starts) \o << TextRun >> \o EndAnchors(ends)) >>) >>)

\* The packages: one with a comment and an indented document.xml, one
\* without comments, one whose document.xml has the start anchor of its
\* comment but not the reference, and one whose document.xml has the start
\* anchor twice.
SessionStarts ==
    { Start([Package(Layouts["only0"], "", << 1 >>, << 1 >>, "absent", "plain")
                EXCEPT ![DOC] = PrettyDocumentXml(<< 0 >>)], << "C", "l" >>),
      Start(Package(Layouts["none"], "", << >>, << >>, "absent", "plain"), << "C", "l" >>),
      Start([Package(Layouts["only0"], "", << 1 >>, << 1 >>, "absent", "plain")
                EXCEPT ![DOC] = UnevenDocumentXml(<< 0 >>, << >>)], << "C", "l" >>),
      Start([Package(Layouts["only0"], "", << 1 >>, << 1 >>, "absent", "plain")
                EXCEPT ![DOC] = UnevenDocumentXml(<< 0, 0 >>, << 0 >>)], << "C", "l" >>) }

InitSession ==
    /\ pc = "closed"
    /\ \E s \in SessionStarts : orig = s.package /\ author = s.who
    /\ dest = NoFiles
    /\ ws = NoFiles
    /\ editors = NoFiles
    /\ original_docx = NoFiles
    /\ existing_comments = NoComments
    /\ next_comment_id = 0
    /\ last = NoResult
    /\ issued = << >>
    /\ nops = 0
    /\ nsessions = 0
    /\ dom = Absent
    /\ found = NoLookup
    /\ val = NoValidation
    /\ returned = NoNodes
    /\ xml_path = NoFile

\* The fragments the caller of a session inserts: a run, and a text alone.
SessionFragments == { << TextRun >>, << Text(<< "H", "i" >>) >> }

\* doc["word/document.xml"].<op>(elem, xml_content)
EditDocument(op, elem, xml_content) ==
    /\ pc = "open"
    /\ nops < MaxOps
    /\ LET T == open(Session, DOC)
           r == CASE op = "insert_before" ->
                        insert_before(T.ed[DOC], elem, xml_content, author, SpareHex)
                  [] op = "insert_after" ->
                        insert_after(T.ed[DOC], elem, xml_content, author, SpareHex)
                  [] op = "append_to" ->
                        append_to(T.ed[DOC], elem, xml_content, author, SpareHex)
                  [] OTHER ->
                        replace_node(T.ed[DOC], elem, xml_content, author, SpareHex)
           S == Apply(T, DOC, r)
       IN  /\ Becomes(S)
           /\ last' = [NoResult EXCEPT !.op = op, !.err = S.err]
    /\ nops' = nops + 1
    /\ UNCHANGED << pc, orig, dest, original_docx, author, issued, nsessions, dom, found,
                    val, returned, xml_path >>

\* doc[part].get_node(tag, attrs): the part's editor is parsed on first use
Lookup(part, f) ==
    /\ pc = "open"
    /\ nops < MaxOps
    /\ LET S == open(Session, part)
           r == get_node(S.ed[part], f)
       IN  /\ Becomes(S)
           /\ last' = [NoResult EXCEPT !.op = "get_node",
                          !.err = IF S.err # "ok" THEN S.err
                                  ELSE IF r.status = "ok" THEN "ok" ELSE r.status]
    /\ nops' = nops + 1
    /\ UNCHANGED << pc, orig, dest, original_docx, author, issued, nsessions, dom, found,
                    val, returned, xml_path >>

\* doc.validate()
ValidateSession(verdict) ==
    /\ pc = "open"
    /\ nops < MaxOps
    /\ last' = [NoResult EXCEPT !.op = "validate", !.err = validate(Session, verdict).err]
    /\ nops' = nops + 1
    /\ UNCHANGED << pc, orig, dest, ws, editors, original_docx, existing_comments,
                    next_comment_id, author, issued, nsessions, dom, found, val, returned, xml_path >>

NextSession ==
    \/ Next
    \/ \E op \in {"insert_before", "insert_after", "append_to", "replace_node"},
          elem \in Selectable(editors[DOC]), x \in SessionFragments :
            EditDocument(op, elem, x)
    \/ \E part \in {DOC, COMMENTS, EXTENDED},
          f \in {ByAttrs("w:p", NoAttrs), ByAttrs("w:comment", NoAttrs)} :
            Lookup(part, f)
    \/ \E verdict \in BOOLEAN : ValidateSession(verdict)

SpecSession == InitSession /\ [][NextSession]_vars

\* C16, as the code has it: the snapshot taken at construction is the
\* original package packed, that is with the blank text between its
\* elements removed; no later operation of the session changes it: not a
\* lookup, a mutation, add_comment, reply_to_comment, validate or save, a
\* save over the original directory included.
C16_SnapshotIsPackedAndKept ==
    [][ /\ last'.op = "init" => original_docx' = pack_document(orig)
        /\ (pc = "open" /\ pc' = "open") => original_docx' = original_docx ]_vars

\* A save has written a commented document over the original directory and
\* the snapshot is still the packed original of the construction.
C16_Witness ==
    /\ pc = "open"
    /\ last.op = "save"
    /\ last.err = "ok"
    /\ orig[DOC] = ws[DOC]
    /\ issued # << >>
    /\ original_docx[DOC] = condense_xml(PrettyDocumentXml(<< 0 >>))
    /\ original_docx[DOC] # condense_xml(orig[DOC])

\* C16: the snapshot taken at construction has the contents of the original
\* package as it was then, and no later operation changes it.
C16_SnapshotEqualsOriginal ==
    [][ /\ (last'.op = "init" /\ pc' = "open") => original_docx' = orig
        /\ (pc = "open" /\ pc' = "open") => original_docx' = original_docx ]_vars


\* C17: until save() is called, nothing the session does changes a file of
\* the original package directory or the stored file of a part that the
\* workspace already had: not the construction, a lookup, a mutation,
\* add_comment or reply_to_comment.  The construction copies the existing
\* parts as they are; the changes of the trees reach the stored files only
\* through save().
C17_StoredFilesUntilSave ==
    [][ /\ last'.op \in {"init", "get_node", "insert_before", "insert_after",
                         "append_to", "replace_node", "add", "reply", "validate"}
            => /\ orig' = orig
               /\ dest' = dest
               /\ LET before == IF last'.op = "init" THEN orig ELSE ws IN
                  \A p \in Parts : Exists(before[p]) => ws'[p] = before[p]
        /\ (\E p \in Parts : Exists(ws[p]) /\ Exists(ws'[p]) /\ ws'[p] # ws[p])
            => last'.op = "save" ]_vars

\* A comment has been added and a run inserted: the tree of document.xml has
\* them, the stored file and the original directory do not, and comments.xml,
\* which the package did not have, has been created in the workspace.
C17_Witness ==
    /\ pc = "open"
    /\ last.op = "insert_after"
    /\ last.err = "ok"
    /\ issued # << >>
    /\ editors[DOC] # ws[DOC]
    /\ ws[DOC] = orig[DOC]
    /\ ~Exists(orig[COMMENTS])
    /\ Exists(ws[COMMENTS])


(***************************************************************************)
(* The errors of reply_to_comment.                                         *)
(***************************************************************************)
\* How many elements of document.xml anchor the comment id with the tag.
AnchorCount(doc, tag, id) == Len(Matches(doc, ByAttrs(tag, A1("w:id", str(id)))))

\* The parent has one start anchor and one reference in document.xml.
Anchored(doc, id) ==
    /\ AnchorCount(doc, "w:commentRangeStart", id) = 1
    /\ AnchorCount(doc, "w:commentReference", id) = 1

\* The side-part, or the template it is created from, has the root element
\* that the operation looks up.
RootFound(ed, files, part) ==
    LET tree == IF Exists(TreeOf(ed, files, part)) THEN TreeOf(ed, files, part)
                ELSE Template(part)
    IN  Len(Matches(tree, ByAttrs(RootTag[part], NoAttrs))) = 1

\* C18, as the code has it: reply_to_comment fails with ParentNotFound
\* exactly when the parent ID is not in the index.  With a parent of the
\* index it fails with the NotFound or Ambiguous of a lookup when
\* document.xml does not hold exactly one start anchor and one reference of
\* the parent, or when a side-part does not have the expected root; it
\* succeeds when the anchors and the roots are there.
C18_ErrorsOfReply ==
    [][ last'.op = "reply"
            => /\ last'.err = "ParentNotFound" <=> last'.parent \notin DOMAIN existing_comments
               /\ last'.err \in {"ok", "ParentNotFound", "NotFound", "Ambiguous"}
               /\ last'.parent \in DOMAIN existing_comments
                    => /\ last'.err = "ok" => Anchored(editors[DOC], last'.parent)
                       /\ ( /\ Anchored(editors[DOC], last'.parent)
                            /\ \A p \in SideParts : RootFound(editors, ws, p) )
                            => last'.err = "ok" ]_vars

\* A reply to a comment of the index, loaded from a package whose
\* document.xml does not anchor it, has failed with the error of the lookup.
C18_Witness ==
    /\ last.op = "reply"
    /\ last.err = "NotFound"
    /\ last.parent \in DOMAIN existing_comments
    /\ AnchorCount(editors[DOC], "w:commentRangeStart", last.parent) = 0

\* C18: whenever the parent ID is in the index, reply_to_comment succeeds;
\* ParentNotFound is the only error it returns.
C18_OnlyParentNotFound ==
    [][ last'.op = "reply"
            => /\ last'.err \in {"ok", "ParentNotFound"}
               /\ last'.parent \in DOMAIN existing_comments => last'.err = "ok" ]_vars


(***************************************************************************)
(* A stand-alone XMLEditor on one file, without any mutation: the file is  *)
(* parsed and saved.  A file is its XML declaration, the white space that  *)
(* follows it and the markup of the root element; the markup is the tree   *)
(* with what the writing adds to it: an element without children is        *)
(* written as an empty-element tag or as a pair of tags, a character of a  *)
(* text is written as itself or as a character reference, decimal or       *)
(* hexadecimal.  The characters are "H", the non-ASCII "Q", the line break *)
(* and the space; the value of an attribute is a sequence of them.         *)
(***************************************************************************)
Declaration(encoding, quote, standalone) ==
    [present |-> TRUE, encoding |-> encoding, quote |-> quote, standalone |-> standalone]

NoDeclaration == [present |-> FALSE, encoding |-> "", quote |-> "", standalone |-> FALSE]

File(decl, sep, root) == [decl |-> decl, sep |-> sep, root |-> root]

Written(tag, attrs, kids, form) ==
    [tag |-> tag, attrs |-> attrs, kids |-> kids, form |-> form]

\* The character a unit of written text stands for
CharacterOf(unit) ==
    CASE unit \in {"&#8220;", "&#x201C;", "Q"} -> "Q"
      [] unit = "&#10;" -> "\n"
      [] OTHER -> unit

\* The value the parser gives an attribute: a line break written as itself
\* is read as a space (attribute-value normalization), one written as a
\* character reference is kept.
AttributeValue(units) ==
    [i \in 1..Len(units) |-> IF units[i] = "\n" THEN " " ELSE CharacterOf(units[i])]

\* What the parser builds from the markup
RECURSIVE Decode(_)
Decode(m) ==
    IF m.tag = "#text" THEN Text([i \in 1..Len(m.data) |-> CharacterOf(m.data[i])])
    ELSE Elem(m.tag, [a \in DOMAIN m.attrs |-> AttributeValue(m.attrs[a])],
              [i \in 1..Len(m.kids) |-> Decode(m.kids[i])])

\* The units the writer writes for characters: with encoding ascii a
\* character outside ASCII becomes a decimal character reference
\* (xmlcharrefreplace); a line break is written as itself.
WrittenUnits(chars, encoding) ==
    [i \in 1..Len(chars) |->
        IF chars[i] = "Q" /\ encoding = "ascii" THEN "&#8220;" ELSE chars[i]]

\* What the writer of minidom writes for a tree: <tag/> for an element
\* without children.
RECURSIVE Encode(_, _)
Encode(n, encoding) ==
    IF n.tag = "#text" THEN Text(WrittenUnits(n.data, encoding))
    ELSE [tag |-> n.tag,
          attrs |-> [a \in DOMAIN n.attrs |-> WrittenUnits(n.attrs[a], encoding)],
          kids |-> [i \in 1..Len(n.kids) |-> Encode(n.kids[i], encoding)],
          form |-> IF n.kids = << >> THEN "empty" ELSE "pair"]

\* self.encoding = "ascii" if 'encoding="ascii"' in header else "utf-8"
detect_encoding(file) ==
    IF file.decl.present /\ file.decl.encoding = "ascii" /\ file.decl.quote = "dq"
    THEN "ascii" ELSE "utf-8"

\* The mutant: the file is written in utf-8 whatever was detected.
toxml_Utf8(tree, encoding) ==
    File(Declaration("utf-8", "dq", FALSE), "", Encode(tree, "utf-8"))

\* dom.toxml(encoding=self.encoding): the declaration with that encoding,
\* directly followed by the root element.
toxml(tree, encoding) ==
    File(Declaration(encoding, "dq", FALSE), "", Encode(tree, encoding))

\* The markups of the files: a paragraph with an empty run and a text with
\* a non-ASCII character; the run is written in either form, the character
\* as a decimal or a hexadecimal reference or as itself; the paragraph has
\* no attribute, or one whose value is a letter or a line break written as
\* a character reference.
Markups ==
    { Written("w:p", attrs,
              << Written("w:r", NoAttrs, << >>, form), Text(<< "H", unit >>) >>, "pair") :
        attrs \in { NoAttrs, A1("w:x", << "H" >>), A1("w:x", << "&#10;" >>) },
        form \in {"empty", "pair"}, unit \in {"&#8220;", "&#x201C;", "Q", "H"} }

XmlDeclarations ==
    { NoDeclaration }
    \cup { Declaration(e, q, s) :
             e \in {"ascii", "UTF-8", "utf-8"}, q \in {"dq", "sq"}, s \in BOOLEAN }

\* Is the unit written somewhere in the markup, in a text or in the value
\* of an attribute?
RECURSIVE HasUnit(_, _)
HasUnit(m, unit) ==
    IF m.tag = "#text" THEN \E i \in 1..Len(m.data) : m.data[i] = unit
    ELSE \/ \E a \in DOMAIN m.attrs : \E i \in 1..Len(m.attrs[a]) : m.attrs[a][i] = unit
         \/ \E i \in 1..Len(m.kids) : HasUnit(m.kids[i], unit)

\* The files the parser accepts: a file declared ascii has no byte outside
\* ASCII.
InputFiles ==
    { f \in { File(d, sep, root) :
                d \in XmlDeclarations, sep \in {"", "\n"}, root \in Markups } :
        (f.decl.present /\ f.decl.encoding = "ascii") => ~HasUnit(f.root, "Q") }

InitRoundTrip ==
    /\ pc = "roundtrip"
    /\ \E f \in InputFiles : xml_path = [input |-> f, stored |-> f, encoding |-> "none"]
    /\ dom = Absent
    /\ returned = NoNodes
    /\ found = NoLookup
    /\ val = NoValidation
    /\ orig = NoFiles
    /\ dest = NoFiles
    /\ ws = NoFiles
    /\ editors = NoFiles
    /\ original_docx = NoFiles
    /\ existing_comments = NoComments
    /\ next_comment_id = 0
    /\ author = << >>
    /\ last = NoResult
    /\ issued = << >>
    /\ nops = 0
    /\ nsessions = 0

\* editor = XMLEditor(xml_path)
ParseFile ==
    /\ xml_path.encoding = "none"
    /\ xml_path' = [xml_path EXCEPT !.encoding = detect_encoding(xml_path.stored)]
    /\ dom' = Decode(xml_path.stored.root)
    /\ last' = [NoResult EXCEPT !.op = "parse"]
    /\ UNCHANGED << pc, orig, dest, ws, editors, original_docx, existing_comments,
                    next_comment_id, author, issued, nops, nsessions, found, val, returned >>

\* editor.save()
SaveFile ==
    /\ xml_path.encoding # "none"
    /\ xml_path' = [xml_path EXCEPT !.stored = toxml(dom, xml_path.encoding)]
    /\ last' = [NoResult EXCEPT !.op = "save"]
    /\ UNCHANGED << pc, orig, dest, ws, editors, original_docx, existing_comments,
                    next_comment_id, author, issued, nops, nsessions, dom, found, val,
                    returned >>

NextRoundTrip == ParseFile \/ SaveFile

SpecRoundTrip == InitRoundTrip /\ [][NextRoundTrip]_vars

\* The file declares its encoding as encoding="ascii"
DeclaredAscii(f) == f.decl.present /\ f.decl.encoding = "ascii" /\ f.decl.quote = "dq"

\* The file is written the way the writer writes: its declaration names
\* ascii or utf-8 in double quotes and nothing else, the root element
\* follows it directly, an element without children is an empty-element
\* tag, a non-ASCII character is a decimal reference in an ascii file and
\* itself in a utf-8 file, and no line break is a character reference.
RECURSIVE EmptyTagsOnly(_)
EmptyTagsOnly(m) ==
    \/ m.tag = "#text"
    \/ /\ m.form = "empty" <=> m.kids = << >>
       /\ \A i \in 1..Len(m.kids) : EmptyTagsOnly(m.kids[i])

AsWritten(f) ==
    /\ f.decl.present
    /\ f.decl.quote = "dq"
    /\ f.decl.encoding \in {"ascii", "utf-8"}
    /\ ~f.decl.standalone
    /\ f.sep = ""
    /\ EmptyTagsOnly(f.root)
    /\ ~HasUnit(f.root, "&#x201C;")
    /\ ~HasUnit(f.root, "&#10;")
    /\ ~HasUnit(f.root, IF f.decl.encoding = "ascii" THEN "Q" ELSE "&#8220;")

\* C19, as the code has it: parsing a file with XMLEditor and saving it
\* without any mutation writes a file in the encoding detected at parse
\* time, ascii for a file that declares encoding="ascii" and utf-8 for any
\* other.  The file parses to the same tree, unless an attribute value had
\* a line break written as a character reference, which is written back as
\* itself and read as a space.  The bytes are the same only for a file that
\* was written the way the writer writes, whatever its encoding.
C19_RoundTrip ==
    (pc = "roundtrip" /\ last.op = "save")
        => /\ xml_path.stored.decl.encoding
                 = IF DeclaredAscii(xml_path.input) THEN "ascii" ELSE "utf-8"
           /\ Decode(xml_path.stored.root) = Decode(xml_path.input.root)
                 <=> ~HasUnit(xml_path.input.root, "&#10;")
           /\ xml_path.stored = xml_path.input <=> AsWritten(xml_path.input)

\* A file that declares ascii, with a line break after its declaration as
\* the unpacking writes it, has been saved: the bytes differ, the tree is
\* the same.
C19_Witness ==
    /\ pc = "roundtrip"
    /\ last.op = "save"
    /\ DeclaredAscii(xml_path.input)
    /\ xml_path.input.sep = "\n"
    /\ HasUnit(xml_path.input.root, "&#8220;")
    /\ xml_path.stored # xml_path.input
    /\ xml_path.stored.root = xml_path.input.root
    /\ Decode(xml_path.stored.root) = dom

\* C19: the file saved without any mutation is byte-identical to the input
\* for a part declared ascii and semantically identical for a utf-8 part,
\* in the encoding detected at parse time.
C19_ByteIdenticalForAscii ==
    (pc = "roundtrip" /\ last.op = "save")
        => /\ xml_path.stored.decl.encoding = xml_path.encoding
           /\ Decode(xml_path.stored.root) = Decode(xml_path.input.root)
           /\ DeclaredAscii(xml_path.input) => xml_path.stored = xml_path.input


(***************************************************************************)
(* Where add_comment puts the anchors.                                     *)
(***************************************************************************)
IsAnchor(n, tag, id) == n.tag = tag /\ getAttribute(n, "w:id") = str(id)

\* A run that holds the comment reference of id
IsReferenceRun(n, id) ==
    /\ n.tag = "w:r"
    /\ \E i \in 1..Len(n.kids) : IsAnchor(n.kids[i], "w:commentReference", id)

IsBlankText(n) == n.tag = "#text" /\ IsBlank(n.data)

\* kids[at], kids[at + 1], kids[at + 2] are the end anchor of id, the blank
\* text between the two elements of the markup, and the reference run.
EndPairAt(kids, at, id) ==
    /\ at >= 1
    /\ at + 2 <= Len(kids)
    /\ IsAnchor(kids[at], "w:commentRangeEnd", id)
    /\ IsBlankText(kids[at + 1])
    /\ IsReferenceRun(kids[at + 2], id)

\* A node of the tree before, at its place in the tree after: same element
SameElement(old, new) == new.tag = old.tag /\ new.attrs = old.attrs

\* What a successful add_comment(start, end, text) has done to document.xml,
\* doc before and new after, id being the ID it returned.
Anchors(doc, new, start, end, id) ==
    LET start1 == Append(Front(start), Last(start) + 1)
        end1 == Shifted(end, Front(start), Last(start), 1)
        end_kids == NodeAt(new, end1).kids
        siblings == NodeAt(new, Front(end1)).kids
    IN  /\ IsAnchor(NodeAt(new, start), "w:commentRangeStart", id)
        /\ SameElement(NodeAt(doc, start), NodeAt(new, start1))
        /\ SameElement(NodeAt(doc, end), NodeAt(new, end1))
        /\ IF NodeAt(doc, end).tag = "w:p"
           THEN EndPairAt(end_kids, Len(end_kids) - 2, id)
           ELSE EndPairAt(siblings, Last(end1) + 1, id)
        /\ AnchorCount(new, "w:commentRangeStart", id) = 1
        /\ AnchorCount(new, "w:commentRangeEnd", id) = 1
        /\ AnchorCount(new, "w:commentReference", id) = 1

\* C20: add_comment(start, end, text) inserts the start anchor as the node
\* immediately before the start node; when the end node is a paragraph it
\* appends the end anchor and then the reference run as the last children of
\* the paragraph, otherwise it inserts them immediately after the end node;
\* the end anchor precedes the reference run and the anchors carry the ID
\* that is returned.
C20_AnchorsOfAdd ==
    [][ (last'.op = "add" /\ last'.err = "ok")
            => \A se \in Selections(editors[DOC]), text \in Texts :
                  AddComment(se[1], se[2], text, last'.para, last'.durable)
                      => Anchors(editors[DOC], editors'[DOC], se[1], se[2], last'.ret) ]_vars

\* A comment from a run to its paragraph has been added: the paragraph
\* begins with the start anchor and the run, and ends with the end anchor and
\* the reference run.
C20_Witness ==
    /\ pc = "open"
    /\ last.op = "add"
    /\ last.err = "ok"
    /\ \E p \in Range(AllPaths(editors[DOC])) :
          LET n == NodeAt(editors[DOC], p) IN
          /\ n.tag = "w:p"
          /\ Len(n.kids) = 5
          /\ IsAnchor(n.kids[1], "w:commentRangeStart", last.ret)
          /\ n.kids[2] = TextRun
          /\ EndPairAt(n.kids, 3, last.ret)


(***************************************************************************)
(* Where reply_to_comment puts the anchors.                                *)
(***************************************************************************)
\* The path of the one element of doc that anchors id with the tag
AnchorPath(doc, tag, id) == Matches(doc, ByAttrs(tag, A1("w:id", str(id))))[1]

\* The children, in the tree after a successful reply, of the parent of the
\* run that holds the parent's comment reference, and the index of that run
\* among them.
ParentRunAfter(doc, parent) ==
    LET ps == AnchorPath(doc, "w:commentRangeStart", parent)
        run == Front(AnchorPath(doc, "w:commentReference", parent))
    IN  Shifted(run, Front(ps), Last(ps) + 1, 1)

\* C21: a successful reply_to_comment(parent) inserts the new start anchor
\* as the node immediately after the parent's start anchor, and the new end
\* anchor followed by the new reference run immediately after the run that
\* holds the parent's comment reference: the end anchor is the first node
\* after that run, the reference run follows the end anchor.
C21_ReplyEndAnchorThenRun ==
    [][ (last'.op = "reply" /\ last'.err = "ok")
            => LET doc == editors[DOC]
                   new == editors'[DOC]
                   ps == AnchorPath(doc, "w:commentRangeStart", last'.parent)
                   run1 == ParentRunAfter(doc, last'.parent)
                   siblings == NodeAt(new, Front(run1)).kids
               IN  /\ IsAnchor(NodeAt(new, Append(Front(ps), Last(ps) + 1)),
                               "w:commentRangeStart", last'.ret)
                   /\ IsReferenceRun(siblings[Last(run1)], last'.parent)
                   /\ Last(run1) + 2 <= Len(siblings)
                   /\ IsAnchor(siblings[Last(run1) + 1], "w:commentRangeEnd", last'.ret)
                   /\ IsReferenceRun(siblings[Last(run1) + 2], last'.ret) ]_vars

\* What the code does: the new reference run is the first node after the
\* parent's reference run, and the new end anchor follows it.
C21_ReplyRunThenEndAnchor ==
    [][ (last'.op = "reply" /\ last'.err = "ok")
            => LET doc == editors[DOC]
                   new == editors'[DOC]
                   ps == AnchorPath(doc, "w:commentRangeStart", last'.parent)
                   run1 == ParentRunAfter(doc, last'.parent)
                   siblings == NodeAt(new, Front(run1)).kids
               IN  /\ IsAnchor(NodeAt(new, Append(Front(ps), Last(ps) + 1)),
                               "w:commentRangeStart", last'.ret)
                   /\ IsReferenceRun(siblings[Last(run1)], last'.parent)
                   /\ Last(run1) + 2 <= Len(siblings)
                   /\ IsReferenceRun(siblings[Last(run1) + 1], last'.ret)
                   /\ IsAnchor(siblings[Last(run1) + 2], "w:commentRangeEnd", last'.ret) ]_vars


(***************************************************************************)
(* Where the four mutations put the nodes of the fragment.                 *)
(***************************************************************************)
\* The tree with the children kids below the parent of the target, and
\* everything else as it was.
Spliced(tree, elem, kids) == WithKids(tree, Front(elem), kids)

\* The nodes a mutation returns are the nodes of the fragment, in its order
ReturnsFragment(tree, r, x) ==
    /\ Len(r.paths) = Len(x)
    /\ \A i \in 1..Len(x) : NodeAt(tree, r.paths[i]) = x[i]

\* C22: every mutation inserts the nodes of the fragment contiguously and in
\* the order of the fragment, and returns them in that order: insert_before
\* directly before the target, insert_after directly after the target and
\* before its former next sibling (at the end of the parent when there is
\* none), append_to after the former last child of the target, replace_node
\* at the place of the target, which is removed; the other nodes of the tree
\* keep their order.
C22_FragmentInPlaceAndOrder ==
    [][ \A elem \in Targets(dom), x \in Fragments :
          LET kids == NodeAt(dom, Front(elem)).kids
              i == Last(elem)
              before == SubSeq(kids, 1, i - 1)
              after == SubSeq(kids, i + 1, Len(kids))
          IN  HasElement(x)
              => /\ InsertBefore(elem, x)
                    => /\ dom' = Spliced(dom, elem, before \o x \o << kids[i] >> \o after)
                       /\ ReturnsFragment(dom', xml_insert_before(dom, elem, x), x)
                 /\ InsertAfter(elem, x)
                    => /\ dom' = Spliced(dom, elem, before \o << kids[i] >> \o x \o after)
                       /\ ReturnsFragment(dom', xml_insert_after(dom, elem, x), x)
                 /\ AppendTo(elem, x)
                    => /\ dom' = WithKids(dom, elem, NodeAt(dom, elem).kids \o x)
                       /\ ReturnsFragment(dom', xml_append_to(dom, elem, x), x)
                 /\ ReplaceNode(elem, x)
                    => /\ dom' = Spliced(dom, elem, before \o x \o after)
                       /\ ReturnsFragment(dom', xml_replace_node(dom, elem, x), x) ]_vars

\* A run and a text have been inserted after the first paragraph of the
\* body, before the white space that followed it.
C22_Witness ==
    /\ pc = "editor"
    /\ last.op = "insert_after"
    /\ last.err = "ok"
    /\ Len(dom.kids) = 7
    /\ dom.kids[2].tag = "w:p"
    /\ dom.kids[3] = Elem("w:r", NoAttrs, << >>)
    /\ dom.kids[4] = Text(<< "H" >>)
    /\ dom.kids[5] = Indent


(***************************************************************************)
(* The attributes of the elements a mutation of DocxXMLEditor inserted.    *)
(***************************************************************************)
\* A text leaf whose text starts or ends with white space
IsSpacedLeaf(n) ==
    /\ n.tag = "w:t"
    /\ Len(n.kids) = 1
    /\ n.kids[1].tag = "#text"
    /\ n.kids[1].data # << >>
    /\ (IsSpace(Head(n.kids[1].data)) \/ IsSpace(Last(n.kids[1].data)))

HasAll(n, names) == \A a \in names : hasAttribute(n, a)

\* The attributes of its kind are on the element n; a spaced leaf has the
\* attribute xml:space with one of the values of flags.
CarriesOwnKind(n, flags) ==
    /\ n.tag = "w:r" => HasAll(n, {"w:rsidR"})
    /\ n.tag = "w:p" => HasAll(n, {"w:rsidR", "w:rsidRDefault", "w:rsidP",
                                   "w14:paraId", "w14:textId"})
    /\ n.tag = "w:comment" => HasAll(n, {"w:author", "w:date", "w:initials"})
    /\ IsSpacedLeaf(n) => /\ hasAttribute(n, "xml:space")
                          /\ getAttribute(n, "xml:space") \in flags

RECURSIVE CarriesBelow(_, _)
CarriesBelow(n, flags) ==
    \/ n.tag = "#text"
    \/ /\ CarriesOwnKind(n, flags)
       /\ \A i \in 1..Len(n.kids) : CarriesBelow(n.kids[i], flags)

\* The spaced leaves among and below the node given, as long as they had no
\* xml:space of their own, have xml:space="preserve" in the node inserted.
RECURSIVE FlagsFilled(_, _)
FlagsFilled(given, n) ==
    \/ given.tag = "#text"
    \/ /\ (IsSpacedLeaf(given) /\ ~hasAttribute(given, "xml:space"))
            => getAttribute(n, "xml:space") = "preserve"
       /\ \A i \in 1..Len(given.kids) : FlagsFilled(given.kids[i], n.kids[i])

Declared(attrs) ==
    [a \in DOMAIN attrs \cup {"xmlns:w14"} |-> IF a = "xmlns:w14" THEN W14 ELSE attrs[a]]

\* The step is a mutation that inserts a paragraph, at any depth of the
\* fragment, which lacks one of its two identifiers, or an injection into
\* such nodes.
InjectsParaId ==
    \/ /\ returned = NoNodes
       /\ returned' # NoNodes
       /\ \E i \in 1..Len(returned'.given) :
             IsElement(returned'.given[i]) /\ LacksParaId(returned'.given[i])
    \/ /\ returned # NoNodes
       /\ last'.op = "inject"
       /\ \E i \in 1..Len(returned.paths) :
             LET n == NodeAt(dom, returned.paths[i]) IN IsElement(n) /\ LacksParaId(n)

\* C24: the root gains the declaration of w14 only in a mutation that gives
\* an identifier to an inserted paragraph that lacked it, and only when the
\* root has no such declaration; every other mutation and every lookup
\* leaves the attributes of the root as they were, and a declaration the root
\* already has keeps its value.
C24_W14DeclaredOnlyWithParaId ==
    [][ /\ dom'.attrs = IF InjectsParaId /\ ~hasAttribute(dom, "xmlns:w14")
                        THEN Declared(dom.attrs)
                        ELSE dom.attrs
        /\ hasAttribute(dom, "xmlns:w14")
             => getAttribute(dom', "xmlns:w14") = getAttribute(dom, "xmlns:w14") ]_vars

\* A paragraph that lacked its identifiers has been inserted below a root
\* that declared w14 with its own value, and a lookup has been done: the
\* paragraph has an identifier and the root has kept its value.
C24_Witness ==
    /\ pc = "injector"
    /\ found # NoLookup
    /\ returned # NoNodes
    /\ \E i \in 1..Len(returned.given) :
          /\ returned.given[i].tag = "w:p"
          /\ ~hasAttribute(returned.given[i], "w14:textId")
          /\ getAttribute(NodeAt(dom, returned.paths[i]), "w14:textId") \in HexIds
    /\ getAttribute(dom, "xmlns:w14") = OwnW14


(***************************************************************************)
(* The identifiers of the relationships the session adds.                  *)
(***************************************************************************)
\* The Id attributes of the entries of a relationship registry, in order
RegistryIds(rels) ==
    [i \in 1..Len(RelationshipEntries(rels)) |->
        getAttribute(RelationshipEntries(rels)[i], "Id")]

\* The registry a session works on: that of the package before the session
\* is constructed, then that of its editor.
RegistryOf(at, package, eds, files) ==
    IF at = "closed" THEN package[RELS]
    ELSE IF Exists(eds[RELS]) THEN eds[RELS] ELSE files[RELS]

\* C25: every relationship identifier the session assigns is unused when it
\* is added: the entries the construction of a session or one of its
\* operations adds to the registry have identifiers that differ from those
\* of the entries already there and from each other.
C25_RelationshipIdsUnused ==
    [][ (pc' = "open" /\ Exists(RegistryOf(pc, orig, editors, ws)))
          => LET old == RegistryIds(RegistryOf(pc, orig, editors, ws))
                 new == RegistryIds(RegistryOf(pc', orig', editors', ws'))
             IN  \A j \in 1..Len(new) :
                    j > Len(old)
                      => \A i \in 1..Len(new) : i # j => new[i] # new[j] ]_vars


\* What the code does: the identifiers are unused when the registry is
\* written without a prefix, the only entries get_next_rid looks at.
C25_UnprefixedIdsUnused ==
    [][ (/\ pc' = "open"
         /\ Exists(RegistryOf(pc, orig, editors, ws))
         /\ RegistryOf(pc, orig, editors, ws).tag = "Relationships")
          => LET old == RegistryIds(RegistryOf(pc, orig, editors, ws))
                 new == RegistryIds(RegistryOf(pc', orig', editors', ws'))
             IN  \A j \in 1..Len(new) :
                    j > Len(old)
                      => \A i \in 1..Len(new) : i # j => new[i] # new[j] ]_vars


(***************************************************************************)
(* The tokens of the comments of a session.                                *)
(***************************************************************************)
\* No two comments of the index have the same paragraph token
InjectiveIndex(idx) == \A c, d \in DOMAIN idx : c # d => idx[c] # idx[d]

\* The values of the attribute attr on the records of a part, in order
TokensOf(ed, files, part, attr) ==
    LET rs == Records(TreeOf(ed, files, part), part)
    IN  [i \in 1..Len(rs) |-> getAttribute(rs[i], attr)]

NoRepeat(s) == \A i, j \in 1..Len(s) : i # j => s[i] # s[j]

\* The parts that hold a token of a comment, and the attribute that holds it
TokenSlots ==
    { << EXTENDED, "w15:paraId" >>, << IDS, "w16cid:paraId" >>,
      << IDS, "w16cid:durableId" >>, << EXTENSIBLE, "w16cex:durableId" >> }

IsParagraphSlot(slot) == slot[2] \in {"w15:paraId", "w16cid:paraId"}

\* C26: the tokens of a comment are the two the generator returned in the
\* call that made it: the index maps the comment to its paragraph token and
\* each of its records holds the paragraph token or the durable token.  The
\* index stays injective, and the records of a part stay without a repeated
\* token, whenever the token drawn is not already in use there; nothing
\* else keeps two comments from having the same token.
C26_TokensDistinctWhenDrawsAre ==
    [][ (last'.op \in {"add", "reply"} /\ last'.err = "ok")
          => /\ existing_comments'[last'.ret] = last'.para
             /\ (/\ InjectiveIndex(existing_comments)
                 /\ \A c \in DOMAIN existing_comments : existing_comments[c] # last'.para)
                  => InjectiveIndex(existing_comments')
             /\ \A slot \in TokenSlots :
                  LET old == TokensOf(editors, ws, slot[1], slot[2])
                      new == TokensOf(editors', ws', slot[1], slot[2])
                      token == IF IsParagraphSlot(slot) THEN last'.para ELSE last'.durable
                  IN  /\ new = Append(old, token)
                      /\ (NoRepeat(old) /\ token \notin Range(old)) => NoRepeat(new) ]_vars

\* As stated: in a session no two comments of the index have the same
\* paragraph token, and no two records of a part hold the same token.
C26_TokensDistinct ==
    pc = "open"
        => /\ InjectiveIndex(existing_comments)
           /\ \A slot \in TokenSlots : NoRepeat(TokensOf(editors, ws, slot[1], slot[2]))

\* Two comments have been made in a session with different draws: the index
\* is injective and the thread records hold the two tokens.
C26_Witness ==
    /\ pc = "open"
    /\ Len(issued) = 2
    /\ last.err = "ok"
    /\ existing_comments[issued[1]] # existing_comments[issued[2]]
    /\ InjectiveIndex(existing_comments)
    /\ NoRepeat(TokensOf(editors, ws, EXTENDED, "w15:paraId"))
    /\ HexIds \subseteq Range(TokensOf(editors, ws, EXTENDED, "w15:paraId"))


(***************************************************************************)
(* BaseSchemaValidator.validate_unique_ids (ooxml/validation/base.py) on   *)
(* the files of a package.  lxml gives the tree of a file as elements,     *)
(* comments and processing instructions; root.iter() yields all of them    *)
(* in document order, and the tag of a comment is not a string.            *)
(***************************************************************************)
XmlComment == [tag |-> "#comment", data |-> << "c" >>]

\* elem.tag.split("}")[-1].lower(): the local name in lower case, for the
\* tags of the model
LocalTag(tag) ==
    CASE tag = "w:commentRangeStart" -> "commentrangestart"
      [] tag = "w:commentRangeEnd" -> "commentrangeend"
      [] tag = "w:comment" -> "comment"
      [] tag = "p:sldMasterId" -> "sldmasterid"
      [] tag = "p:sldLayoutId" -> "sldlayoutid"
      [] tag = "mc:AlternateContent" -> "alternatecontent"
      [] tag = "mc:Choice" -> "choice"
      [] tag = "w:document" -> "document"
      [] tag = "w:p" -> "p"
      [] OTHER -> tag

\* attr.split("}")[-1].lower()
LocalAttr(attr) ==
    CASE attr = "w:id" -> "id"
      [] attr = "r:id" -> "id"
      [] OTHER -> attr

\* UNIQUE_ID_REQUIREMENTS: element name -> (attribute name, scope)
UNIQUE_ID_REQUIREMENTS ==
    [t \in {"comment", "commentrangestart", "commentrangeend", "bookmarkstart",
            "bookmarkend", "sldid", "sldmasterid", "sldlayoutid", "cm", "sheet",
            "definedname", "cxnsp", "sp", "pic", "grpsp"} |->
        CASE t \in {"sldmasterid", "sldlayoutid"} -> << "id", "global" >>
          [] t = "cm" -> << "authorid", "file" >>
          [] t = "sheet" -> << "sheetid", "file" >>
          [] OTHER -> << "id", "file" >>]

\* for elem in root.xpath(".//mc:AlternateContent"): elem.getparent().remove(elem)
RECURSIVE remove_alternate_content(_)
remove_alternate_content(n) ==
    IF n.tag \in {"#text", "#comment"} THEN n
    ELSE LET kept == SelectSeq(n.kids, LAMBDA k : k.tag # "mc:AlternateContent")
         IN  [n EXCEPT !.kids = [i \in 1..Len(kept) |-> remove_alternate_content(kept[i])]]

\* root.iter(): the root and what is below it, in document order; the text
\* is not a node of the tree lxml builds.
RECURSIVE iter(_)
RECURSIVE iter_each(_)
iter_each(kids) == IF kids = << >> THEN << >> ELSE iter(Head(kids)) \o iter_each(Tail(kids))
iter(n) ==
    IF n.tag = "#text" THEN << >>
    ELSE IF n.tag = "#comment" THEN << n >>
    ELSE << n >> \o iter_each(n.kids)

NoIdValue == "#None"

\* The value of the attribute whose local name is attr_name, or None
id_value_of(elem, attr_name) ==
    IF \E a \in DOMAIN elem.attrs : LocalAttr(a) = attr_name
    THEN elem.attrs[CHOOSE a \in DOMAIN elem.attrs : LocalAttr(a) = attr_name]
    ELSE NoIdValue

\* What the check holds while it runs: global_ids (value -> tag), the
\* file_ids of the file it is in ((tag, attr_name) -> values) and errors.
NoIds == [global_ids |-> << >>, file_ids |-> {}, errors |-> << >>]

UniqueIdError(file, tag, value, scope) ==
    [file |-> file, tag |-> tag, value |-> value, scope |-> scope]

\* The body of `for elem in root.iter()`.  The test `"}" in elem.tag` raises
\* TypeError on a comment, whose tag is a function; the handler of the file
\* records it as an error.
check_elem(st, file, elem) ==
    IF elem.tag = "#comment"
    THEN [st EXCEPT !.errors = Append(@, UniqueIdError(file, "#comment", "", "Error"))]
    ELSE
    LET tag == LocalTag(elem.tag) IN
    IF tag \notin DOMAIN UNIQUE_ID_REQUIREMENTS THEN st
    ELSE
    LET attr_name == UNIQUE_ID_REQUIREMENTS[tag][1]
        scope == UNIQUE_ID_REQUIREMENTS[tag][2]
        id_value == id_value_of(elem, attr_name)
    IN  IF id_value = NoIdValue THEN st
        ELSE IF scope = "global"
        THEN IF id_value \in Range(st.global_ids)
             THEN [st EXCEPT !.errors = Append(@, UniqueIdError(file, tag, id_value, scope))]
             ELSE [st EXCEPT !.global_ids = Append(@, id_value)]
        ELSE IF << tag, attr_name, id_value >> \in st.file_ids
             THEN [st EXCEPT !.errors = Append(@, UniqueIdError(file, tag, id_value, scope))]
             ELSE [st EXCEPT !.file_ids = @ \cup { << tag, attr_name, id_value >> }]

\* The loop over the nodes of one file; the exception ends it.
RECURSIVE check_elems(_, _, _)
check_elems(st, file, elems) ==
    IF elems = << >> THEN st
    ELSE LET next == check_elem(st, file, Head(elems)) IN
         IF Head(elems).tag = "#comment" THEN next
         ELSE check_elems(next, file, Tail(elems))

\* The loop over self.xml_files; file_ids starts empty in each file.
RECURSIVE check_files(_, _, _)
check_files(st, files, names) ==
    IF names = << >> THEN st
    ELSE check_files(
            check_elems([st EXCEPT !.file_ids = {}], Head(names),
                        iter(remove_alternate_content(files[Head(names)]))),
            files, Tail(names))

\* BaseSchemaValidator.validate_unique_ids: the errors, and what it returns
validate_unique_ids(files, names) ==
    LET st == check_files(NoIds, files, names)
    IN  [op |-> "validate_unique_ids", errors |-> st.errors, ok |-> st.errors = << >>]

(***************************************************************************)
(* The ID-uniqueness check on its own, on packages of two parts.           *)
(***************************************************************************)
RangeStart(id) == Elem("w:commentRangeStart", A1("w:id", id), << >>)

\* What a part holds below its root: a start-anchor, an end-anchor with the
\* same id, a start-anchor in an alternate-content wrapper, a start-anchor
\* in a paragraph, a slide master id and a slide layout id with the same
\* value, and a comment.
UniqueIdNodes ==
    { RangeStart("1"),
      Elem("w:commentRangeEnd", A1("w:id", "1"), << >>),
      Elem("mc:AlternateContent", NoAttrs,
           << Elem("mc:Choice", NoAttrs, << RangeStart("1") >>) >>),
      Elem("w:p", NoAttrs, << RangeStart("1") >>),
      Elem("p:sldMasterId", A1("id", "1"), << >>),
      Elem("p:sldLayoutId", A1("id", "1"), << >>),
      XmlComment }

MaxNodes == 2

UniqueIdParts ==
    { Elem("w:document", NoAttrs, kids) :
        kids \in UNION { [1..n -> UniqueIdNodes] : n \in 0..MaxNodes } }

\* The files of the package, in the order the check reads them
UniqueIdFiles == << DOC, COMMENTS >>

InitUniqueIds ==
    /\ pc = "unique_ids"
    /\ \E d \in UniqueIdParts, c \in UniqueIdParts :
          ws = [p \in Parts |-> IF p = DOC THEN d ELSE IF p = COMMENTS THEN c ELSE Absent]
    /\ val = NoValidation
    /\ returned = NoNodes
    /\ xml_path = NoFile
    /\ dom = Absent
    /\ found = NoLookup
    /\ orig = NoFiles
    /\ dest = NoFiles
    /\ editors = NoFiles
    /\ original_docx = NoFiles
    /\ existing_comments = NoComments
    /\ next_comment_id = 0
    /\ author = << >>
    /\ last = NoResult
    /\ issued = << >>
    /\ nops = 0
    /\ nsessions = 0

\* schema_validator.validate_unique_ids()
ValidateUniqueIds ==
    /\ pc = "unique_ids"
    /\ val.out.op = "none"
    /\ val' = [val EXCEPT !.out = validate_unique_ids(ws, UniqueIdFiles)]
    /\ UNCHANGED << sessionVars, dom, found, returned, xml_path >>

NextUniqueIds == ValidateUniqueIds

SpecUniqueIds == InitUniqueIds /\ [][NextUniqueIds]_vars

\* The nodes the check reads in a file: those outside alternate content
CheckedNodes(file) == iter(remove_alternate_content(file))

\* Two nodes of the sequence are elements of the kinds given with the same
\* value of their identifier
SharedValue(nodes, kinds) ==
    \E i, j \in 1..Len(nodes) :
        /\ i < j
        /\ LocalTag(nodes[i].tag) \in kinds
        /\ LocalTag(nodes[j].tag) \in kinds
        /\ id_value_of(nodes[i], "id") # NoIdValue
        /\ id_value_of(nodes[i], "id") = id_value_of(nodes[j], "id")

FileKinds == { t \in DOMAIN UNIQUE_ID_REQUIREMENTS : UNIQUE_ID_REQUIREMENTS[t][2] = "file" }
GlobalKinds == { t \in DOMAIN UNIQUE_ID_REQUIREMENTS : UNIQUE_ID_REQUIREMENTS[t][2] = "global" }

Reported(errors, files, kinds) ==
    \E i \in 1..Len(errors) : errors[i].file \in files /\ errors[i].tag \in kinds

\* C27: the check reports a violation for a kind that is unique within a
\* file exactly when two elements of that kind, outside alternate content,
\* have the same value in the same file, and for a kind that is unique in
\* the package exactly when two elements of that kind anywhere in the
\* package have the same value; it reports nothing else.
C27_ReportsExactlyTheDuplicates ==
    (pc = "unique_ids" /\ val.out.op = "validate_unique_ids")
        => LET errors == val.out.errors
               all == CheckedNodes(ws[DOC]) \o CheckedNodes(ws[COMMENTS])
           IN  /\ \A f \in {DOC, COMMENTS}, k \in FileKinds :
                     Reported(errors, {f}, {k}) <=> SharedValue(CheckedNodes(ws[f]), {k})
               /\ \A k \in GlobalKinds :
                     Reported(errors, {DOC, COMMENTS}, {k}) <=> SharedValue(all, {k})
               /\ \A i \in 1..Len(errors) : errors[i].tag \in FileKinds \cup GlobalKinds

\* What the code does in files without comments: the kinds that are unique
\* in the package share one table of values, so two such elements of
\* different kinds with the same value are reported too.
C27_WithoutCommentsAndAcrossGlobalKinds ==
    (/\ pc = "unique_ids"
     /\ val.out.op = "validate_unique_ids"
     /\ \A f \in {DOC, COMMENTS} : \A i \in 1..Len(ws[f].kids) : ws[f].kids[i] # XmlComment)
        => LET errors == val.out.errors
               all == CheckedNodes(ws[DOC]) \o CheckedNodes(ws[COMMENTS])
           IN  /\ \A f \in {DOC, COMMENTS}, k \in FileKinds :
                     Reported(errors, {f}, {k}) <=> SharedValue(CheckedNodes(ws[f]), {k})
               /\ Reported(errors, {DOC, COMMENTS}, GlobalKinds) <=> SharedValue(all, GlobalKinds)
               /\ \A i \in 1..Len(errors) : errors[i].tag \in FileKinds \cup GlobalKinds


(***************************************************************************)
(* The positions the parser gave to the elements of a file.                *)
(***************************************************************************)
\* The path q is p or below p
Below(p, q) == Len(q) >= Len(p) /\ SubSeq(q, 1, Len(p)) = p

NotBelowAny(q, removed) == \A p \in removed : ~Below(p, q)

\* The tag, the attributes and the line of the elements at paths, in order,
\* without those at or below a removed path
Described(tree, paths, removed) ==
    LET kept == SelectSeq(paths, LAMBDA q : NotBelowAny(q, removed))
    IN  [i \in 1..Len(kept) |->
            << NodeAt(tree, kept[i]).tag, NodeAt(tree, kept[i]).attrs,
               Line(NodeAt(tree, kept[i])) >>]

\* The elements of a tree that have a position
Positioned(tree) ==
    SelectSeq(AllPaths(tree),
              LAMBDA q : IsElement(NodeAt(tree, q)) /\ Line(NodeAt(tree, q)) # 0)

\* The filters by line alone: one line, a range, a range from 0 on
LineFilters ==
    { Filter(tag, NoAttrs, TRUE, lines, << >>) :
        tag \in {"w:body", "w:p", "w:r", "w:t"},
        lines \in { {1}, {2}, {3}, {4}, 2..3, 0..9 } }

\* After the mutation with result r, which removed the elements at and
\* below the paths of removed: the elements that were parsed have the
\* positions they had, every lookup by line finds the elements it found
\* before, and none of the inserted nodes.
PositionsKept(r, removed) ==
    /\ Described(dom', Positioned(dom'), {}) = Described(dom, Positioned(dom), removed)
    /\ \A f \in LineFilters :
          /\ Described(dom', Matches(dom', f), {}) = Described(dom, Matches(dom, f), removed)
          /\ \A i \in 1..Len(r.paths), k \in 1..Len(Matches(dom', f)) :
                ~Below(r.paths[i], Matches(dom', f)[k])
          /\ removed = {} => get_node(dom', f).status = get_node(dom, f).status

\* C28: the positions are fixed when the file is parsed.  No mutation
\* changes the line of an element that was parsed, so a lookup by line
\* number or range finds after the mutation the elements it found before
\* (but those the mutation removed), at their lines, and never an inserted
\* element.
C28_PositionsFixedAtParse ==
    [][ \A elem \in Targets(dom), x \in Fragments :
          HasElement(x)
          => /\ InsertBefore(elem, x) => PositionsKept(xml_insert_before(dom, elem, x), {})
             /\ InsertAfter(elem, x) => PositionsKept(xml_insert_after(dom, elem, x), {})
             /\ AppendTo(elem, x) => PositionsKept(xml_append_to(dom, elem, x), {})
             /\ ReplaceNode(elem, x)
                  => PositionsKept(xml_replace_node(dom, elem, x), {elem}) ]_vars

\* A run has been inserted before the first paragraph: the run of line 3,
\* which comes after it, is still the one run found at line 3.
C28_Witness ==
    /\ pc = "editor"
    /\ last.op = "insert_before"
    /\ last.err = "ok"
    /\ dom.kids[2].tag = "w:r"
    /\ Line(dom.kids[2]) = 0
    /\ get_node(dom, Filter("w:r", NoAttrs, TRUE, {3}, << >>)) =
          [status |-> "ok", path |-> << 3, 1 >>]


(***************************************************************************)
(* The IDs of the comments over the calls of a session, failed ones        *)
(* included.                                                               *)
(***************************************************************************)
\* How many comment records of comments.xml carry the id
CommentCount(tree, id) ==
    Len(SelectSeq(Records(tree, COMMENTS),
                  LAMBDA r : getAttribute(r, "w:id") = str(id)))

\* C29: whatever add_comment and reply_to_comment calls were made, failed
\* ones included, a call leaves at most one start anchor, one end anchor
\* and one comment record with the id it used: an id whose anchors are in
\* document.xml is not used again.
C29_NoIdAnchoredTwice ==
    [][ last'.op \in {"add", "reply"}
          => LET id == next_comment_id
                 doc == editors'[DOC]
             IN  /\ AnchorCount(doc, "w:commentRangeStart", id) <= 1
                 /\ AnchorCount(doc, "w:commentRangeEnd", id) <= 1
                 /\ CommentCount(TreeOf(editors', ws', COMMENTS), id) <= 1 ]_vars


(***************************************************************************)
(* A reply whose parent is in the index but not anchored in document.xml.  *)
(***************************************************************************)
\* C30: a reply_to_comment whose parent is in the index, but whose start
\* anchor or reference is not found, or found more than once, in
\* document.xml, fails with the error of the lookup and has no effect: the
\* trees of the editors, the files of the workspace, the index and
\* next_comment_id are what they were.
C30_FailedLookupChangesNothing ==
    [][ (/\ last'.op = "reply"
         /\ last'.parent \in DOMAIN existing_comments
         /\ ~Anchored(editors[DOC], last'.parent))
          => /\ last'.err \in {"NotFound", "Ambiguous"}
             /\ UNCHANGED << editors, ws, existing_comments, next_comment_id,
                             orig, dest, original_docx >> ]_vars

\* A reply to a comment whose start anchor is in document.xml, and whose
\* reference is not, has failed at the second lookup.
C30_Witness ==
    /\ last.op = "reply"
    /\ last.err = "NotFound"
    /\ last.parent \in DOMAIN existing_comments
    /\ AnchorCount(editors[DOC], "w:commentRangeStart", last.parent) = 1
    /\ AnchorCount(editors[DOC], "w:commentReference", last.parent) = 0

====
